---- MODULE Spec2Model ----
(***************************************************************************)
(* XStitch: the background coordinator (background.ts), its archive        *)
(* reconstruction, the whole-collection storage writes, the notification   *)
(* debounce, the download listener and the side panel toggling; the page   *)
(* interceptor (inject.js); the side panel, its cards and the preview      *)
(* page with their rename, delete, save and export actions and storage     *)
(* listeners; the content script's export trigger, editor scraping and     *)
(* on-page notification; the side-panel ports.                             *)
(*                                                                         *)
(* Text that the code inspects character by character (archive entry       *)
(* paths, folder keys, titles) is a sequence of one-character strings.     *)
(* Text the code only stores and copies (file contents, base64 data,       *)
(* source URLs) is an opaque string.                                       *)
(***************************************************************************)
EXTENDS Integers, Sequences, FiniteSets, TLC

\* ------------------------------------------------------------------------
\* Bounds of the model
\* ------------------------------------------------------------------------
MaxEntries == 3

MaxTasks == 2

MaxCalls == 3

MaxTime == 3000

MaxExports == 1

MaxSettingsWrites == 2

MaxDownloads == 2

MaxPanelEvents == 3

MaxPanelTime == 1000

MaxPageCalls == 3

MaxUiOps == 2

MaxShown == 2
MaxExportItems == 2
MaxSegments == 2
MaxDocLines == 4
MaxTriggers == 1
MaxPorts == 3
MaxShows == 3
MaxToastTime == 12000

MaxPreviewPages == 2

MaxStorageWrites == 12

\* ------------------------------------------------------------------------
\* Program constants
\* ------------------------------------------------------------------------
DebounceMs == 1000

TickMs == 500
FrameTickMs == 1000

\* ------------------------------------------------------------------------
\* JavaScript string primitives on character sequences
\* ------------------------------------------------------------------------
UpperLetters == <<"A","B","C","D","E","F","G","H","I","J","K","L","M",
                  "N","O","P","Q","R","S","T","U","V","W","X","Y","Z">>

LowerLetters == <<"a","b","c","d","e","f","g","h","i","j","k","l","m",
                  "n","o","p","q","r","s","t","u","v","w","x","y","z">>

Digits == <<"0","1","2","3","4","5","6","7","8","9">>

IsUpper(c) == \E i \in 1..26 : UpperLetters[i] = c

IsLower(c) == \E i \in 1..26 : LowerLetters[i] = c

IsDigit(c) == \E i \in 1..10 : Digits[i] = c

ToUpperChar(c) ==
    IF IsLower(c) THEN UpperLetters[CHOOSE i \in 1..26 : LowerLetters[i] = c] ELSE c

ToLowerChar(c) ==
    IF IsUpper(c) THEN LowerLetters[CHOOSE i \in 1..26 : UpperLetters[i] = c] ELSE c

ToLowerStr(s) == [i \in 1..Len(s) |-> ToLowerChar(s[i])]

DigitVal(c) == (CHOOSE i \in 1..10 : Digits[i] = c) - 1

\* \w of a JavaScript regular expression
IsWordChar(c) == IsUpper(c) \/ IsLower(c) \/ IsDigit(c) \/ c = "_"

\* \s of a JavaScript regular expression (the characters the model uses)
IsSpace(c) == c = " "

EndsWith(s, suf) ==
    /\ Len(s) >= Len(suf)
    /\ SubSeq(s, Len(s) - Len(suf) + 1, Len(s)) = suf

StartsWith(s, pre) ==
    /\ Len(s) >= Len(pre)
    /\ SubSeq(s, 1, Len(pre)) = pre

RECURSIVE SplitFrom(_, _, _, _)
SplitFrom(s, sep, i, cur) ==
    IF i > Len(s) THEN <<cur>>
    ELSE IF s[i] = sep THEN <<cur>> \o SplitFrom(s, sep, i + 1, <<>>)
    ELSE SplitFrom(s, sep, i + 1, Append(cur, s[i]))

\* String.prototype.split(sep) for a one-character separator
Split(s, sep) == SplitFrom(s, sep, 1, <<>>)

RECURSIVE Join(_, _)
\* Array.prototype.join(sep)
Join(parts, sep) ==
    IF Len(parts) = 0 THEN <<>>
    ELSE IF Len(parts) = 1 THEN parts[1]
    ELSE parts[1] \o <<sep>> \o Join(Tail(parts), sep)

\* Array.prototype.pop(): the array without its last element
Front(parts) == SubSeq(parts, 1, Len(parts) - 1)

Last(parts) == parts[Len(parts)]

RECURSIVE NumVal(_)
NumVal(s) == IF Len(s) = 0 THEN 0 ELSE 10 * NumVal(Front(s)) + DigitVal(Last(s))

\* ------------------------------------------------------------------------
\* Values stored in an item
\* ------------------------------------------------------------------------
\* a reference used as an image or as the src of an <img>: null, a data URL
\* "data:image/<ext>;base64,<data>", or a bare path
NullRef == [kind |-> "null", name |-> <<>>, ext |-> <<>>, data |-> ""]

DataUrl(ext, data) == [kind |-> "dataurl", name |-> <<>>, ext |-> ext, data |-> data]

PathRef(name) == [kind |-> "path", name |-> name, ext |-> <<>>, data |-> ""]

\* html is either text (possibly empty) or the generated wrapper document
\* around an <img src=...>
HtmlText(t) == [kind |-> "text", text |-> t, src |-> NullRef]

HtmlWrapper(src) == [kind |-> "wrapper", text |-> "", src |-> src]

\* JavaScript truthiness of item.html and item.image
HtmlNonEmpty(h) == ~(h.kind = "text" /\ h.text = "")

ImageNonEmpty(r) == r.kind # "null"

\* ------------------------------------------------------------------------
\* Archive reconstruction (processZipData, the part between loadAsync and
\* the storage write)
\* ------------------------------------------------------------------------
NoFile == [path |-> <<>>, dir |-> FALSE, content |-> ""]

\* variant: only index.html is taken as a group's html
IsHtmlName_OnlyIndex(fileName) ==
    fileName = <<"i","n","d","e","x",".","h","t","m","l">>

\* background.ts:322
IsHtmlName(fileName) ==
    \/ fileName = <<"i","n","d","e","x",".","h","t","m","l">>
    \/ fileName = <<"c","o","d","e",".","h","t","m","l">>
    \/ EndsWith(fileName, <<".","h","t","m","l">>)

\* background.ts:324   /\.(png|jpg|jpeg|webp)$/i
IsImageName(fileName) ==
    LET l == ToLowerStr(fileName) IN
    \/ EndsWith(l, <<".","p","n","g">>)
    \/ EndsWith(l, <<".","j","p","g">>)
    \/ EndsWith(l, <<".","j","p","e","g">>)
    \/ EndsWith(l, <<".","w","e","b","p">>)

\* folders[folderPath].html = file   (every .html entry assigns)
SetHtml(slot, file) == [slot EXCEPT !.hasHtml = TRUE, !.html = file]

\* if (!folders[folderPath].image) folders[folderPath].image = file
SetImage(slot, file) ==
    IF ~slot.hasImage THEN [slot EXCEPT !.hasImage = TRUE, !.image = file] ELSE slot

\* the folders record as the sequence of its properties in creation order
FolderIndex(folders, key) == CHOOSE i \in 1..Len(folders) : folders[i].key = key

HasFolder(folders, key) == \E i \in 1..Len(folders) : folders[i].key = key

\* one call of the zip.forEach callback
GroupEntry(folders, file) ==
    IF file.dir THEN folders
    ELSE
      LET parts      == Split(file.path, "/")
          fileName   == Last(parts)
          folderPath == Join(Front(parts), "/")
          f1 == IF HasFolder(folders, folderPath) THEN folders
                ELSE Append(folders, [key |-> folderPath, hasHtml |-> FALSE, html |-> NoFile,
                                      hasImage |-> FALSE, image |-> NoFile])
          i  == FolderIndex(f1, folderPath)
      IN  IF IsHtmlName(fileName) THEN [f1 EXCEPT ![i] = SetHtml(f1[i], file)]
          ELSE IF IsImageName(fileName) THEN [f1 EXCEPT ![i] = SetImage(f1[i], file)]
          ELSE f1

RECURSIVE GroupAll(_, _)
\* zip.forEach over the entries, in archive entry order
GroupAll(folders, entries) ==
    IF Len(entries) = 0 THEN folders
    ELSE GroupAll(GroupEntry(folders, Head(entries)), Tail(entries))

\* a property key that JavaScript treats as an array index (canonical
\* decimal numeral; the keys of the model have at most 9 digits)
IsArrayIndex(k) ==
    /\ Len(k) > 0
    /\ \A i \in 1..Len(k) : IsDigit(k[i])
    /\ (Len(k) = 1 \/ k[1] # "0")
    /\ Len(k) <= 9     \* every such value is below 2^32 - 1

RECURSIVE SortByKey(_, _)
\* the indices in S by ascending numeric value of their folder key
SortByKey(folders, S) ==
    IF S = {} THEN <<>>
    ELSE LET m == CHOOSE i \in S : \A j \in S : NumVal(folders[i].key) <= NumVal(folders[j].key)
         IN  <<m>> \o SortByKey(folders, S \ {m})

RECURSIVE InsertionOrder(_, _)
InsertionOrder(folders, i) ==
    IF i > Len(folders) THEN <<>>
    ELSE IF IsArrayIndex(folders[i].key) THEN InsertionOrder(folders, i + 1)
    ELSE <<i>> \o InsertionOrder(folders, i + 1)

\* Object.entries(folders): integer-like keys ascending, then the other keys
\* in creation order
EntriesOrder(folders) ==
    SortByKey(folders, {i \in 1..Len(folders) : IsArrayIndex(folders[i].key)})
      \o InsertionOrder(folders, 1)

DeriveTitle_ExactPrefix(folderPath) ==
    LET pathParts == Split(folderPath, "/")
        t0 == IF Last(pathParts) = <<"_","c","a","n","v","a","s","_","s","c","r","e","e","n">>
                 /\ Len(pathParts) > 1
              THEN pathParts[Len(pathParts) - 1]
              ELSE Last(pathParts)
        t1 == [i \in 1..Len(t0) |-> IF t0[i] = "_" THEN " " ELSE t0[i]]
        t2 == [i \in 1..Len(t1) |->
                 IF IsWordChar(t1[i]) /\ (i = 1 \/ ~IsWordChar(t1[i - 1]))
                 THEN ToUpperChar(t1[i]) ELSE t1[i]]
    IN  IF StartsWith(t2, <<"S","t","i","t","c","h"," ">>)
        THEN SubSeq(t2, 8, Len(t2))
        ELSE t2

\* background.ts:354-364
DeriveTitle(folderPath) ==
    LET pathParts == Split(folderPath, "/")
        t0 == IF Last(pathParts) = <<"_","c","a","n","v","a","s","_","s","c","r","e","e","n">>
                 /\ Len(pathParts) > 1
              THEN pathParts[Len(pathParts) - 1]
              ELSE Last(pathParts)
        t1 == [i \in 1..Len(t0) |-> IF t0[i] = "_" THEN " " ELSE t0[i]]
        t2 == [i \in 1..Len(t1) |->
                 IF IsWordChar(t1[i]) /\ (i = 1 \/ ~IsWordChar(t1[i - 1]))
                 THEN ToUpperChar(t1[i]) ELSE t1[i]]
        stitch == <<"s","t","i","t","c","h">>
        RECURSIVE SkipSpaces(_, _)
        SkipSpaces(s, i) == IF i <= Len(s) /\ IsSpace(s[i]) THEN SkipSpaces(s, i + 1) ELSE i
    IN  IF StartsWith(ToLowerStr(t2), stitch) /\ Len(t2) > 6 /\ IsSpace(t2[7])
        THEN SubSeq(t2, SkipSpaces(t2, 7), Len(t2))
        ELSE t2

\* the wrapper document generated for a group without html text
\* background.ts:350   <img src="${files.image.name}" ...>
ZipWrapper(files, imageBase64) == HtmlWrapper(PathRef(files.image.path))

\* the item pushed for one folder (background.ts:335-373)
MakeItem(files, sourceUrl, id) ==
    LET htmlContent == IF files.hasHtml THEN files.html.content ELSE ""
        imageBase64 == IF files.hasImage
                       THEN DataUrl(Last(Split(files.image.path, ".")), files.image.content)
                       ELSE NullRef
        html == IF htmlContent = "" /\ imageBase64.kind # "null"
                THEN ZipWrapper(files, imageBase64)
                ELSE HtmlText(htmlContent)
    IN  [id |-> id, html |-> html, image |-> imageBase64,
         sourceUrl |-> sourceUrl, title |-> DeriveTitle(files.key)]

\* variant: every folder group yields an item
KeepsGroup_Always(files) == TRUE

\* if (files.html || files.image)   background.ts:334
KeepsGroup(files) == files.hasHtml \/ files.hasImage

RECURSIVE EmitItems(_, _, _, _)
\* the for..of loop over Object.entries(folders); ids are fresh, counted
\* from nextFree
EmitItems(folders, order, sourceUrl, nextFree) ==
    IF Len(order) = 0 THEN <<>>
    ELSE LET files == folders[Head(order)] IN
         IF KeepsGroup(files)
         THEN <<MakeItem(files, sourceUrl, nextFree)>>
                \o EmitItems(folders, Tail(order), sourceUrl, nextFree + 1)
         ELSE EmitItems(folders, Tail(order), sourceUrl, nextFree)

\* newItems of processZipData for a decoded archive
ReconstructItems(entries, sourceUrl, nextFree) ==
    LET folders == GroupAll(<<>>, entries)
    IN  EmitItems(folders, EntriesOrder(folders), sourceUrl, nextFree)

\* ------------------------------------------------------------------------
\* Inputs of the model
\* ------------------------------------------------------------------------
\* tab ids; 0 stands for "undefined" (no sender tab, no active tab)
Tabs == {1, 2}

NoTab == 0

File(path, content) == [path |-> path, dir |-> FALSE, content |-> content]

Dir(path) == [path |-> path, dir |-> TRUE, content |-> ""]

\* the entries archives are built from
EntryPool ==
    { File(<<"S","/","a",".","h","t","m","l">>, "h1"),
      File(<<"S","/","b",".","h","t","m","l">>, "h2"),
      File(<<"S","/","p",".","p","n","g">>, "p1"),
      File(<<"S","/","q",".","J","P","G">>, "p2"),
      File(<<"2","/","i","n","d","e","x",".","h","t","m","l">>, "h1"),
      File(<<"1","/","c","o","d","e",".","h","t","m","l">>, "h2"),
      File(<<"I","/","s",".","w","e","b","p">>, "p1"),
      File(<<"x",".","h","t","m","l">>, ""),
      File(<<"N","/","r",".","t","x","t">>, "t1"),
      Dir(<<"S","/">>) }

RECURSIVE SeqsUpTo(_, _)
\* the sequences of at most n distinct elements of S
SeqsUpTo(S, n) ==
    IF n = 0 THEN {<<>>}
    ELSE LET shorter == SeqsUpTo(S, n - 1)
         IN  shorter \cup
             { Append(q, e) : q \in {r \in shorter : Len(r) = n - 1}, e \in S }

Distinct(q) == \A i, j \in 1..Len(q) : i # j => q[i] # q[j]

Archives == {q \in SeqsUpTo(EntryPool, MaxEntries) : Distinct(q)}

\* ------------------------------------------------------------------------
\* State
\* ------------------------------------------------------------------------
VARIABLES
    \* background.ts module state
    notificationBatch,      \* background.ts:66  ([active |-> FALSE] is null)
    notificationTimeout,    \* background.ts:67  (0 is null)
    \* the service worker's timers and clock
    timers,                 \* pending setTimeout callbacks: [id, due]
    nextTimer,
    now,
    \* history of the notification logic
    calls,                  \* scheduleNotification calls: [count, tabId, at, by]
    flushes,                \* timer callbacks that found a batch:
                            \*   [count, at, nCalls, active, to]; active is the
                            \*   answer of the tabs query (0: not asked, or no
                            \*   such tab), to is the tab
                            \*   SHOW_XSTITCH_NOTIFICATION went to, 0: not sent
    \* the archive reconstruction applied to one input
    zipIn,
    zipOut,                 \* newItems
    zipKeys,                \* the folderPath each element of newItems was made from
    zipDone,
    \* persistent storage (chrome.storage.local)
    capturedItems,          \* key capturedItems; <<>> also stands for "absent"
    \* the ingestions in progress in the service worker
    tasks,                  \* per processZipData / saveSingleImageDesign call
    nextId,                 \* source of fresh item ids
    escaped,                \* calls whose exception left the function
    \* messages sent with chrome.runtime.sendMessage, not yet delivered
    inbox,
    \* history of the storage
    storeVersion,           \* number of writes of capturedItems so far
    prevStore,              \* capturedItems before the last write
    lastWriter,             \* the task that made the last write (0: none)
    exportsHandled          \* STITCH_EXPORT_FULL payloads the listener has seen

notifyVars == <<notificationBatch, notificationTimeout, timers, nextTimer, now, calls, flushes>>

zipVars == <<zipIn, zipOut, zipKeys, zipDone>>

storeVars == <<capturedItems, tasks, nextId, escaped, inbox,
               storeVersion, prevStore, lastWriter, exportsHandled>>

\* ------------------------------------------------------------------------
\* State of the settings, the download listener and the UI surfaces
\* ------------------------------------------------------------------------
VARIABLES
    \* persistent storage, key settings; an absent property reads as
    \* undefined, which every reader treats as false
    settings,               \* [present, cancelDownloads, experimentalMode]
    settingsWrites,         \* the read-modify-write sequences of the two toggles
    uiCancelDownloads,      \* side panel: useState cancelDownloads
    uiExperimental,         \* options page: useState experimental
    \* the chrome.downloads.onCreated handler, per created download
    downloads

settingsVars == <<settings, settingsWrites, uiCancelDownloads, uiExperimental>>

dlVars == <<downloads>>

VARIABLES
    \* background.ts module state
    openSidePanels,         \* background.ts:27
    lastToggleTimes,        \* background.ts:28  (0: no entry)
    \* the browser
    dateNow,                \* Date.now()
    panelOpen,              \* the side panel of the window is showing
    panelEnabled,           \* per tab: the enabled option set with sidePanel.setOptions
    tabUrl,                 \* per tab: tab.url
    csActive,               \* per tab: the content script ran runContentScript
    activeTabId,              \* the active tab of the window
    \* handlers in progress
    visQueue,               \* updateSidePanelVisibility calls awaiting the settings
    reenableTimers,         \* pending setTimeout callbacks of the close branch
    \* history
    toggleLog,              \* TOGGLE_SIDE_PANEL requests handled: what each did
    navCount                \* tab events handled

panelVars == <<openSidePanels, lastToggleTimes, dateNow, panelOpen, panelEnabled, tabUrl,
               csActive, activeTabId, visQueue, reenableTimers, toggleLog, navCount>>

VARIABLES
    \* the host page with inject.js installed
    urlsMade,               \* object URLs the browser has made for the page
    originalCalls,          \* the arguments originalCreateObjectURL was called with
    pageCalls,              \* the page's calls of URL.createObjectURL: [obj, outcome]
    readers,                \* FileReaders reading an intercepted blob
    dispatched,             \* STITCH_BLOB_INTERCEPTED events dispatched
    \* the same page without inject.js, making the same calls
    plainUrlsMade,
    plainOutcomes

injectVars == <<urlsMade, originalCalls, pageCalls, readers, dispatched,
                plainUrlsMade, plainOutcomes>>

VARIABLES
    \* side panel (App)
    spItems,                \* useState items
    spVer,                  \* the version of capturedItems spItems was last set from
    spEvents,               \* storage.onChanged events for capturedItems not yet delivered
    \* preview page
    previewData,            \* storage key previewData
    pvData,                 \* useState data
    pvUnsaved,              \* useState hasUnsavedChanges
    \* user actions that write capturedItems
    uiWrites

uiVars == <<spItems, spVer, spEvents, previewData, pvData, pvUnsaved, uiWrites>>

VARIABLES
    \* export actions
    bundle                  \* the ZIP handed to the browser by the last export action

exportVars == <<bundle>>

VARIABLES
    \* title derivation
    groupKey,               \* the folder path a group of the archive is stored under
    derived                 \* the title derived for it, once it is

titleVars == <<groupKey, derived>>

VARIABLES
    \* content script (one frame)
    csNow,                  \* Date.now() in the frame
    lastMouseMoveTime,      \* let lastMouseMoveTime
    lastRightClickedElement,\* let lastRightClickedElement: null, or where the element is
    mouseOverNode,          \* a .react-flow__node is under (mouseX, mouseY)
    triggers                \* the handleExportTrigger invocations

triggerVars == <<csNow, lastMouseMoveTime, lastRightClickedElement, mouseOverNode, triggers>>

VARIABLES
    \* tryGetCodeFromEditor (one call)
    editorEnv,              \* what the call finds on the page
    codeResult              \* what the call returned, once it has

editorVars == <<editorEnv, codeResult>>

VARIABLES
    \* side-panel ports (chrome.runtime.onConnect)
    ports,                  \* the ports named sidepanel: their state and the winId of their listener closure
    broadcasts              \* SIDE_PANEL_STATE broadcasts requested

portVars == <<ports, broadcasts>>

VARIABLES
    \* content script notification (showXStitchNotification)
    pageIsTop,              \* window === window.top in this frame
    lastNotificationTime,   \* let lastNotificationTime
    csNotificationTimeout,  \* the content script's notificationTimeout: null, or the timer's due time and element
    pageNotifications,      \* the .xstitch-notification elements in the document
    shows                   \* the SHOW_XSTITCH_NOTIFICATION messages received: when, and whether displayed

toastVars == <<pageIsTop, lastNotificationTime, csNotificationTimeout, pageNotifications, shows>>

VARIABLES
    \* one export of the host page, seen by both capture channels
    exportArtifact,         \* the artifact the page exports, once it has begun
    pageActed               \* the page has called createObjectURL or the anchor has been clicked

channelVars == <<exportArtifact, pageActed>>

VARIABLES
    \* storage.onChanged listeners of the open preview pages
    pvListening,            \* the preview pages whose handleStorageChange is registered
    pvEvents,               \* per page: the onChanged events not yet delivered to its listener
    pvReads,                \* per page: the listener's pending chrome.storage.local.get callbacks, each with the event's capturedItems
    storageWrites           \* the chrome.storage.local.set calls applied so far: the keys written and who wrote

listenVars == <<pvListening, pvEvents, pvReads, storageWrites>>

extVars == <<settingsVars, dlVars, panelVars, injectVars, uiVars, exportVars, titleVars, triggerVars, editorVars, portVars, toastVars, channelVars, listenVars>>

vars == <<notifyVars, zipVars, storeVars, extVars>>

NullBatch == [active |-> FALSE, count |-> 0, tabId |-> NoTab]

\* ------------------------------------------------------------------------
\* Notification batching (background.ts:66-111)
\* ------------------------------------------------------------------------
\* variant: the earlier timeout is left running
ClearPending_Keep(ts, timeoutId) == ts

\* if (notificationTimeout) clearTimeout(notificationTimeout)
ClearPending(ts, timeoutId) ==
    IF timeoutId # 0 THEN {x \in ts : x.id # timeoutId} ELSE ts

\* variant: the batch count is overwritten instead of accumulated
BatchAfter_Overwrite(batch, count, tabId) ==
    IF batch.active
    THEN [batch EXCEPT !.count = count,
                       !.tabId = IF tabId # NoTab THEN tabId ELSE batch.tabId]
    ELSE [active |-> TRUE, count |-> count, tabId |-> tabId]

\* background.ts:76-81
BatchAfter(batch, count, tabId) ==
    IF batch.active
    THEN [batch EXCEPT !.count = batch.count + count,
                       !.tabId = IF tabId # NoTab THEN tabId ELSE batch.tabId]
    ELSE [active |-> TRUE, count |-> count, tabId |-> tabId]

\* scheduleNotification(count, tabId); by is the ingestion that calls it
ScheduleNotification(count, tabId, by) ==
    /\ timers' = ClearPending(timers, notificationTimeout)
                   \cup {[id |-> nextTimer, due |-> now + DebounceMs]}
    /\ notificationBatch' = BatchAfter(notificationBatch, count, tabId)
    /\ notificationTimeout' = nextTimer
    /\ nextTimer' = nextTimer + 1
    /\ calls' = Append(calls, [count |-> count, tabId |-> tabId, at |-> now, by |-> by])
    /\ UNCHANGED <<now, flushes>>

\* the tab the flushed batch is shown on: the batch's tab, else the active
\* tab of the current window, else none (background.ts:99-108)
FlushTarget(batchTabId, activeTab) ==
    IF batchTabId # NoTab THEN batchTabId ELSE activeTab

\* the setTimeout callback (background.ts:84-110); activeTab is the answer of
\* chrome.tabs.query, 0 when there is no such tab
TimerFire(tm, activeTab) ==
    /\ tm \in timers
    /\ now >= tm.due
    /\ timers' = timers \ {tm}
    /\ IF notificationBatch.active
       THEN /\ notificationBatch' = NullBatch
            /\ notificationTimeout' = 0
            /\ flushes' = Append(flushes,
                  [count |-> notificationBatch.count, at |-> now, nCalls |-> Len(calls),
                   active |-> IF notificationBatch.tabId # NoTab THEN NoTab ELSE activeTab,
                   to |-> FlushTarget(notificationBatch.tabId, activeTab)])
       ELSE UNCHANGED <<notificationBatch, notificationTimeout, flushes>>
    /\ UNCHANGED <<nextTimer, now, calls>>

\* time passes
Tick ==
    /\ now + TickMs <= MaxTime
    /\ now' = now + TickMs
    /\ UNCHANGED <<notificationBatch, notificationTimeout, timers, nextTimer, calls, flushes>>

NotifyInit ==
    /\ notificationBatch = NullBatch
    /\ notificationTimeout = 0
    /\ timers = {}
    /\ nextTimer = 1
    /\ now = 0
    /\ calls = <<>>
    /\ flushes = <<>>

\* ------------------------------------------------------------------------
\* The reconstruction as a function of the archive
\* ------------------------------------------------------------------------
RECURSIVE EmitKeys(_, _)
EmitKeys(folders, order) ==
    IF Len(order) = 0 THEN <<>>
    ELSE LET files == folders[Head(order)] IN
         IF KeepsGroup(files)
         THEN <<files.key>> \o EmitKeys(folders, Tail(order))
         ELSE EmitKeys(folders, Tail(order))

ZipInit ==
    /\ zipIn \in Archives
    /\ zipOut = <<>>
    /\ zipKeys = <<>>
    /\ zipDone = FALSE

Reconstruct ==
    /\ ~zipDone
    /\ zipOut' = ReconstructItems(zipIn, "blob:export", 1)
    /\ zipKeys' = LET folders == GroupAll(<<>>, zipIn)
                  IN  EmitKeys(folders, EntriesOrder(folders))
    /\ zipDone' = TRUE
    /\ UNCHANGED zipIn


\* ------------------------------------------------------------------------
\* Ingestion (background.ts:123-129, 235-238, 259-262, 274-396)
\* ------------------------------------------------------------------------
TaskIds == 1..MaxTasks

\* the data handed to processZipData: the base64 of a ZIP archive, an image
\* data URL, or something that is no data URL at all
ZipData(entries) == [kind |-> "zip", entries |-> entries, ext |-> <<>>, data |-> ""]

ImageData(ext, data) == [kind |-> "image", entries |-> <<>>, ext |-> ext, data |-> data]

Garbage == [kind |-> "garbage", entries |-> <<>>, ext |-> <<>>, data |-> ""]

\* a call slot: pc is the point the call has reached, data its first
\* argument, newItems and updated its locals; readVer and writeVer are the
\* storage versions its read saw and its write made
IdleTask == [pc |-> "idle", kind |-> "none", failed |-> FALSE, data |-> Garbage,
             newItems |-> <<>>, updated |-> <<>>, readVer |-> 0, writeVer |-> 0]

\* JSZip.loadAsync(base64Data, {base64: true}) resolves
LoadAsyncOk(data) == data.kind = "zip"

\* variant: no try/catch around the body of processZipData
EscapedAfterDecodeError_NoCatch(esc, t) == esc \cup {t}

\* try { ... } catch (err) { console.error(...) }   background.ts:301, 393-395
EscapedAfterDecodeError(esc, t) == esc

\* variant: new items are appended
MergeItems_Append(newItems, currentItems) == currentItems \o newItems

\* [...newItems, ...currentItems]   background.ts:287, 383
MergeItems(newItems, currentItems) == newItems \o currentItems

\* variant: the write merges into the collection as it is when the write lands
WrittenValue_Fresh(task, current) == MergeItems(task.newItems, current)

\* chrome.storage.local.set({ capturedItems: updatedItems })   background.ts:288, 384
WrittenValue(task, current) == task.updated

\* the first call slot not yet used
FreeTask(t) == tasks[t].pc = "idle" /\ \A u \in TaskIds : u < t => tasks[u].pc # "idle"

\* processZipData(base64DataUrl, sourceUrl, tabId), up to the point where the
\* storage read has been requested and the notification scheduled
ProcessZipData(t, data, sourceUrl, tabId) ==
    /\ FreeTask(t)
    /\ IF ~LoadAsyncOk(data)
       THEN /\ tasks' = [tasks EXCEPT ![t] = [IdleTask EXCEPT !.pc = "done", !.kind = "zip",
                                                               !.data = data, !.failed = TRUE]]
            /\ escaped' = EscapedAfterDecodeError(escaped, t)
            /\ UNCHANGED <<nextId, notifyVars>>
       ELSE LET newItems == ReconstructItems(data.entries, sourceUrl, nextId) IN
            /\ escaped' = escaped
            /\ IF Len(newItems) > 0
               THEN /\ tasks' = [tasks EXCEPT ![t] = [IdleTask EXCEPT !.pc = "get", !.kind = "zip",
                                                                       !.data = data,
                                                                       !.newItems = newItems]]
                    /\ nextId' = nextId + Len(newItems)
                    /\ ScheduleNotification(Len(newItems), tabId, t)
               ELSE /\ tasks' = [tasks EXCEPT ![t] = [IdleTask EXCEPT !.pc = "done", !.kind = "zip",
                                                                       !.data = data]]
                    /\ UNCHANGED <<nextId, notifyVars>>
    /\ UNCHANGED <<capturedItems, storeVersion, prevStore, lastWriter>>

\* filename.split('/').pop()?.split('.')[0] || "Captured Image"
ImageTitle(filename) ==
    LET stem == Split(Last(Split(filename, "/")), ".")[1]
    IN  IF stem # <<>> THEN stem
        ELSE <<"C","a","p","t","u","r","e","d"," ","I","m","a","g","e">>

\* saveSingleImageDesign(base64Data, sourceUrl, filename), up to the point
\* where the storage read has been requested
SaveSingleImageDesign(t, base64Data, sourceUrl, filename) ==
    /\ FreeTask(t)
    /\ LET newItem == [id |-> nextId, html |-> HtmlWrapper(base64Data), image |-> base64Data,
                       sourceUrl |-> sourceUrl, title |-> ImageTitle(filename)]
       IN  tasks' = [tasks EXCEPT ![t] = [IdleTask EXCEPT !.pc = "get", !.kind = "img",
                                                           !.newItems = <<newItem>>]]
    /\ nextId' = nextId + 1
    /\ UNCHANGED <<capturedItems, escaped, storeVersion, prevStore, lastWriter, notifyVars>>

\* the callback of chrome.storage.local.get(['capturedItems'], ...): merges
\* and requests the write   (background.ts:285-288, 381-384)
StorageGetCallback(t) ==
    /\ tasks[t].pc = "get"
    /\ tasks' = [tasks EXCEPT ![t].pc = "set",
                              ![t].updated = MergeItems(tasks[t].newItems, capturedItems),
                              ![t].readVer = storeVersion]
    /\ UNCHANGED <<capturedItems, nextId, escaped, inbox, storeVersion, prevStore, lastWriter,
                   exportsHandled, notifyVars, zipVars>>

\* the write requested by chrome.storage.local.set reaches the storage
StorageSetApply(t) ==
    /\ tasks[t].pc = "set"
    /\ capturedItems' = WrittenValue(tasks[t], capturedItems)
    /\ prevStore' = capturedItems
    /\ storeVersion' = storeVersion + 1
    /\ lastWriter' = t
    /\ tasks' = [tasks EXCEPT ![t].pc = "done", ![t].writeVer = storeVersion + 1]
    /\ UNCHANGED <<nextId, escaped, inbox, exportsHandled, notifyVars, zipVars>>

\* ------------------------------------------------------------------------
\* Messages to the background (inject.js, content script, background.ts:123-198)
\* ------------------------------------------------------------------------
NoItem == [html |-> HtmlText(""), image |-> NullRef, sourceUrl |-> "", title |-> <<>>]

BlobMsg(url, data, tab) ==
    [type |-> "BLOB_DATA_CAPTURED", url |-> url, data |-> data, tab |-> tab, payload |-> NoItem]

ExportMsg(payload, tab) ==
    [type |-> "STITCH_EXPORT_FULL", url |-> "", data |-> Garbage, tab |-> tab, payload |-> payload]

\* the ingestions requested so far
Started ==
    Cardinality({m \in inbox : m.type = "BLOB_DATA_CAPTURED"})
      + Cardinality({t \in TaskIds : tasks[t].pc # "idle"})

\* inject.js dispatches STITCH_BLOB_INTERCEPTED and the content script
\* forwards it   (inject.js:19-24, 48-53; content script lines 34-44)
PageIntercept(url, data, tab) ==
    /\ Started < MaxTasks
    /\ BlobMsg(url, data, tab) \notin inbox
    /\ inbox' = inbox \cup {BlobMsg(url, data, tab)}
    /\ UNCHANGED <<capturedItems, tasks, nextId, escaped, storeVersion, prevStore, lastWriter,
                   exportsHandled, notifyVars, zipVars>>

SelectedCode == <<"S","e","l","e","c","t","e","d"," ","C","o","d","e">>

SourceCode == <<"S","o","u","r","c","e"," ","C","o","d","e">>

VisualCapture == <<"V","i","s","u","a","l"," ","C","a","p","t","u","r","e">>

\* the STITCH_EXPORT_FULL payload handleExportTrigger sends, if any
\* (content script lines 176-278): selLong is "the selection has more than 50
\* characters", fresh is "the mouse moved in this frame within 2000 ms",
\* code is the text tryGetCodeFromEditor returned ("" for null), node is
\* "a .react-flow__node was found", image is what getHighResImage returned
ExportPayload(selLong, selText, fresh, code, node, image, href) ==
    IF selLong
    THEN [sent |-> TRUE,
          item |-> [html |-> HtmlText(selText), image |-> NullRef,
                    sourceUrl |-> href, title |-> SelectedCode]]
    ELSE IF ~fresh THEN [sent |-> FALSE, item |-> NoItem]
    ELSE IF code # ""
    THEN [sent |-> TRUE,
          item |-> [html |-> HtmlText(code), image |-> NullRef,
                    sourceUrl |-> href, title |-> SourceCode]]
    ELSE IF ~node THEN [sent |-> FALSE, item |-> NoItem]
    ELSE [sent |-> TRUE,
          item |-> [html |-> HtmlText("<!-- STITCH DESIGN PREVIEW -->"), image |-> image,
                    sourceUrl |-> href, title |-> VisualCapture]]

\* handleExportTrigger in the frame of tab
HandleExportTrigger(selLong, fresh, code, node, image, tab) ==
    LET p == ExportPayload(selLong, "selected text", fresh, code, node, image, "https://stitch.withgoogle.com/p")
    IN  /\ p.sent
        /\ Cardinality({m \in inbox : m.type = "STITCH_EXPORT_FULL"})
              + Cardinality(exportsHandled) < MaxExports
        /\ inbox' = inbox \cup {ExportMsg(p.item, tab)}
        /\ UNCHANGED <<capturedItems, tasks, nextId, escaped, storeVersion, prevStore, lastWriter,
                       exportsHandled, notifyVars, zipVars>>

\* the chrome.runtime.onMessage listener of the background (background.ts:123-198)
\* for the two ingestion message types; a type no branch names falls through
BgOnMessage(m) ==
    /\ m \in inbox
    /\ inbox' = inbox \ {m}
    /\ IF m.type = "BLOB_DATA_CAPTURED"
       THEN /\ \E t \in TaskIds : ProcessZipData(t, m.data, m.url, m.tab)
            /\ UNCHANGED exportsHandled
       ELSE /\ exportsHandled' = exportsHandled \cup {m.payload}
            /\ UNCHANGED <<capturedItems, tasks, nextId, escaped, storeVersion, prevStore,
                           lastWriter, notifyVars>>
    /\ UNCHANGED zipVars

\* reader.onloadend of the download listener for a fetched ZIP (background.ts:235-238)
ZipDownloadLoaded(data, url) ==
    /\ Started < MaxTasks
    /\ \E t \in TaskIds : ProcessZipData(t, data, url, NoTab)
    /\ UNCHANGED <<inbox, exportsHandled, zipVars>>

\* reader.onloadend of the download listener for a fetched image (background.ts:259-262)
ImageDownloadLoaded(base64Data, url, filename) ==
    /\ Started < MaxTasks
    /\ \E t \in TaskIds : SaveSingleImageDesign(t, base64Data, url, filename)
    /\ UNCHANGED <<inbox, exportsHandled, zipVars>>

StoreInit ==
    /\ capturedItems = <<>>
    /\ tasks = [t \in TaskIds |-> IdleTask]
    /\ nextId = 1
    /\ escaped = {}
    /\ inbox = {}
    /\ storeVersion = 0
    /\ prevStore = <<>>
    /\ lastWriter = 0
    /\ exportsHandled = {}

\* the payloads of the ingestion runs
A_Scenario ==
    << File(<<"S","c","r","e","e","n","A","/","i","n","d","e","x",".","h","t","m","l">>, "h1"),
       File(<<"S","c","r","e","e","n","A","/","p","r","e","v","i","e","w",".","p","n","g">>, "p1"),
       File(<<"S","c","r","e","e","n","B","/","c","o","d","e",".","h","t","m","l">>, "h2") >>

A_EmptyHtml == << File(<<"x",".","h","t","m","l">>, "") >>

A_ImageOnly == << File(<<"I","/","s",".","w","e","b","p">>, "p2") >>

A_NoMatch == << File(<<"N","/","r",".","t","x","t">>, "t1") >>

A_Mixed ==
    << Dir(<<"S","/">>),
       File(<<"N","/","r",".","t","x","t">>, "t1"),
       File(<<"S","/","a",".","h","t","m","l">>, "h1") >>

PngData == DataUrl(<<"p","n","g">>, "p3")

BlobPayloads ==
    { ZipData(A_Scenario), ZipData(A_EmptyHtml), ZipData(A_ImageOnly), ZipData(A_NoMatch),
      ZipData(A_Mixed), ZipData(<<>>), ImageData(<<"p","n","g">>, "p3"), Garbage }

\* ------------------------------------------------------------------------
\* Settings (storage key settings) and its two writers
\* (side panel toggleCancelDownloads, options page handleChange)
\* ------------------------------------------------------------------------
SwIds == 1..MaxSettingsWrites

\* the value of the key: absent, or an object whose two properties may each
\* be missing (undefined)
NoSettings == [present |-> FALSE, hasCancel |-> FALSE, cancelDownloads |-> FALSE,
               hasExp |-> FALSE, experimentalMode |-> FALSE]

\* settings?.cancelDownloads, as a condition
CancelDownloadsOf(s) == s.present /\ s.hasCancel /\ s.cancelDownloads

\* settings?.experimentalMode, as a condition
ExperimentalOf(s) == s.present /\ s.hasExp /\ s.experimentalMode

\* { ...currentSettings, cancelDownloads: newValue }
WithCancelDownloads(s, v) ==
    [s EXCEPT !.present = TRUE, !.hasCancel = TRUE, !.cancelDownloads = v]

\* { ...currentSettings, experimentalMode: newValue }
WithExperimentalMode(s, v) ==
    [s EXCEPT !.present = TRUE, !.hasExp = TRUE, !.experimentalMode = v]

IdleWrite == [pc |-> "idle", field |-> "none", value |-> FALSE, written |-> NoSettings]

FreeWrite(w) ==
    settingsWrites[w].pc = "idle" /\ \A u \in SwIds : u < w => settingsWrites[u].pc # "idle"

\* side panel: toggleCancelDownloads, up to the storage read request
ToggleCancelDownloads(w) ==
    /\ FreeWrite(w)
    /\ uiCancelDownloads' = ~uiCancelDownloads
    /\ settingsWrites' = [settingsWrites EXCEPT ![w] =
          [IdleWrite EXCEPT !.pc = "get", !.field = "cancelDownloads",
                            !.value = ~uiCancelDownloads]]
    /\ UNCHANGED <<settings, uiExperimental>>

\* options page: handleChange of the checkbox bound to experimental, up to
\* the storage read request
OptionsHandleChange(w) ==
    /\ FreeWrite(w)
    /\ uiExperimental' = ~uiExperimental
    /\ settingsWrites' = [settingsWrites EXCEPT ![w] =
          [IdleWrite EXCEPT !.pc = "get", !.field = "experimentalMode",
                            !.value = ~uiExperimental]]
    /\ UNCHANGED <<settings, uiCancelDownloads>>

\* the callback of chrome.storage.local.get(['settings'], ...) of either
\* writer: spreads what it read and requests the write
SettingsGetCallback(w) ==
    /\ settingsWrites[w].pc = "get"
    /\ settingsWrites' = [settingsWrites EXCEPT
          ![w].pc = "set",
          ![w].written = IF settingsWrites[w].field = "cancelDownloads"
                         THEN WithCancelDownloads(settings, settingsWrites[w].value)
                         ELSE WithExperimentalMode(settings, settingsWrites[w].value)]
    /\ UNCHANGED <<settings, uiCancelDownloads, uiExperimental>>

\* side panel handleStorageChange, the settings part: the state follows the
\* stored value unless the property is missing
PanelCancelAfterChange(cur, newSettings) ==
    IF newSettings.hasCancel THEN newSettings.cancelDownloads ELSE cur

\* the write reaches the storage and the side panel's onChanged listener runs
SettingsSetApply(w) ==
    /\ settingsWrites[w].pc = "set"
    /\ settings' = settingsWrites[w].written
    /\ settingsWrites' = [settingsWrites EXCEPT ![w].pc = "done"]
    /\ uiCancelDownloads' = PanelCancelAfterChange(uiCancelDownloads, settingsWrites[w].written)
    /\ UNCHANGED uiExperimental

SettingsInit ==
    /\ settings = NoSettings
    /\ settingsWrites = [w \in SwIds |-> IdleWrite]
    /\ uiCancelDownloads = FALSE
    /\ uiExperimental = FALSE

\* ------------------------------------------------------------------------
\* Download interception (background.ts:203-269)
\* ------------------------------------------------------------------------
DlIds == 1..MaxDownloads

\* String.prototype.includes
Includes(s, sub) ==
    \E i \in 1..(Len(s) - Len(sub) + 1) : SubSeq(s, i, i + Len(sub) - 1) = sub

\* background.ts:400
STITCH_DOMAINS == << <<"s","t","i","t","c","h",".","w","i","t","h","g","o","o","g","l","e",".","c","o","m">>, <<"a","p","p","s","p","o","t",".","c","o","m">> >>

\* background.ts:212-213
IsStitchOrigin(downloadItem) ==
    \/ /\ downloadItem.referrer # <<>>
       /\ \/ Includes(downloadItem.referrer, <<"s","t","i","t","c","h",".","w","i","t","h","g","o","o","g","l","e",".","c","o","m">>)
          \/ Includes(downloadItem.referrer, <<"a","p","p","s","p","o","t",".","c","o","m">>)
    \/ /\ downloadItem.url # <<>>
       /\ \/ Includes(downloadItem.url, <<"s","t","i","t","c","h",".","w","i","t","h","g","o","o","g","l","e",".","c","o","m">>)
          \/ Includes(downloadItem.url, <<"a","p","p","s","p","o","t",".","c","o","m">>)

\* background.ts:220
IsZipDownload(downloadItem) ==
    \/ downloadItem.mime = <<"a","p","p","l","i","c","a","t","i","o","n","/","z","i","p">>
    \/ EndsWith(downloadItem.filename, <<".","z","i","p">>)

\* variant: only the file name extension makes a download an image
IsImageDownload_ByName(downloadItem) == IsImageName(downloadItem.filename)

\* background.ts:246
IsImageDownload(downloadItem) ==
    \/ StartsWith(downloadItem.mime, <<"i","m","a","g","e","/">>)
    \/ IsImageName(downloadItem.filename)

\* variant: any URL that mentions http is fetched
IsHttpUrl_Anywhere(url) == Includes(url, <<"h","t","t","p">>)

\* downloadItem.url.startsWith('http')
IsHttpUrl(url) == StartsWith(url, <<"h","t","t","p">>)

DownloadItem(url, referrer, mime, filename) ==
    [url |-> url, referrer |-> referrer, mime |-> mime, filename |-> filename]

NoDownload == DownloadItem(<<>>, <<>>, <<>>, <<>>)

\* the created downloads of the model
DownloadPool ==
    { DownloadItem(<<"d","a","t","a",":","a","p","p","l","i","c","a","t","i","o","n","/","z","i","p",";","b","a","s","e","6","4",",","U","E","s">>, <<"h","t","t","p","s",":","/","/","s","t","i","t","c","h",".","w","i","t","h","g","o","o","g","l","e",".","c","o","m","/">>,
                   <<"a","p","p","l","i","c","a","t","i","o","n","/","z","i","p">>, <<"e",".","z","i","p">>),
      DownloadItem(<<"h","t","t","p","s",":","/","/","s","t","i","t","c","h",".","w","i","t","h","g","o","o","g","l","e",".","c","o","m","/","e">>, <<>>, <<"a","p","p","l","i","c","a","t","i","o","n","/","z","i","p">>, <<"e",".","z","i","p">>),
      DownloadItem(<<"b","l","o","b",":","h","t","t","p","s",":","/","/","s","t","i","t","c","h",".","w","i","t","h","g","o","o","g","l","e",".","c","o","m","/","1">>, <<>>,
                   <<"a","p","p","l","i","c","a","t","i","o","n","/","o","c","t","e","t","-","s","t","r","e","a","m">>, <<"e",".","z","i","p">>),
      DownloadItem(<<"h","t","t","p","s",":","/","/","c","d","n",".","e","x","a","m","p","l","e",".","c","o","m","/","s">>, <<"h","t","t","p","s",":","/","/","s","t","i","t","c","h",".","w","i","t","h","g","o","o","g","l","e",".","c","o","m","/">>,
                   <<"i","m","a","g","e","/","p","n","g">>, <<"s",".","P","N","G">>),
      DownloadItem(<<"h","t","t","p","s",":","/","/","x",".","a","p","p","s","p","o","t",".","c","o","m","/","s">>, <<>>, <<"a","p","p","l","i","c","a","t","i","o","n","/","o","c","t","e","t","-","s","t","r","e","a","m">>, <<"s",".","w","e","b","p">>),
      DownloadItem(<<"h","t","t","p","s",":","/","/","x",".","a","p","p","s","p","o","t",".","c","o","m","/","d">>, <<>>, <<"i","m","a","g","e","/","s","v","g","+","x","m","l">>, <<"d",".","s","v","g">>),
      DownloadItem(<<"h","t","t","p","s",":","/","/","x",".","a","p","p","s","p","o","t",".","c","o","m","/","n">>, <<>>, <<"t","e","x","t","/","p","l","a","i","n">>, <<"n",".","t","x","t">>),
      DownloadItem(<<"h","t","t","p","s",":","/","/","c","d","n",".","e","x","a","m","p","l","e",".","c","o","m","/","e">>, <<"h","t","t","p","s",":","/","/","e","x","a","m","p","l","e",".","c","o","m","/">>,
                   <<"a","p","p","l","i","c","a","t","i","o","n","/","z","i","p">>, <<"e",".","z","i","p">>) }

\* the handler's progress for one download: readCancel is shouldCancel as
\* read, cancelled is "chrome.downloads.cancel was called", task is the
\* ingestion call it made (0: none)
IdleDownload == [pc |-> "none", item |-> NoDownload, readCancel |-> FALSE,
                 cancelled |-> FALSE, task |-> 0]

FreeDownload(d) ==
    downloads[d].pc = "none" /\ \A e \in DlIds : e < d => downloads[e].pc # "none"

\* the event fires: the handler requests the settings and awaits them
DownloadCreated(d, downloadItem) ==
    /\ FreeDownload(d)
    /\ downloads' = [downloads EXCEPT ![d] = [IdleDownload EXCEPT !.pc = "settings",
                                                                  !.item = downloadItem]]

\* variant: a cancelled download is not fetched
DownloadSettingsRead_CancelStops(d) ==
    /\ downloads[d].pc = "settings"
    /\ LET downloadItem == downloads[d].item
           shouldCancel == CancelDownloadsOf(settings)
           rec == [downloads[d] EXCEPT !.readCancel = shouldCancel]
           fetches == IsHttpUrl(downloadItem.url) /\ ~shouldCancel
       IN  downloads' = [downloads EXCEPT ![d] =
             IF ~IsStitchOrigin(downloadItem) THEN [rec EXCEPT !.pc = "done"]
             ELSE IF IsZipDownload(downloadItem)
             THEN [rec EXCEPT !.cancelled = shouldCancel,
                              !.pc = IF fetches THEN "fetchZip" ELSE "done"]
             ELSE IF IsImageDownload(downloadItem)
             THEN [rec EXCEPT !.cancelled = shouldCancel,
                              !.pc = IF fetches THEN "fetchImg" ELSE "done"]
             ELSE [rec EXCEPT !.pc = "done"]]

\* the handler from the resolved settings to its awaited fetch, or to its end
DownloadSettingsRead(d) ==
    /\ downloads[d].pc = "settings"
    /\ LET downloadItem == downloads[d].item
           shouldCancel == CancelDownloadsOf(settings)
           rec == [downloads[d] EXCEPT !.readCancel = shouldCancel]
       IN  downloads' = [downloads EXCEPT ![d] =
             IF ~IsStitchOrigin(downloadItem) THEN [rec EXCEPT !.pc = "done"]
             ELSE IF IsZipDownload(downloadItem)
             THEN [rec EXCEPT !.cancelled = shouldCancel,
                              !.pc = IF IsHttpUrl(downloadItem.url) THEN "fetchZip" ELSE "done"]
             ELSE IF IsImageDownload(downloadItem)
             THEN [rec EXCEPT !.cancelled = shouldCancel,
                              !.pc = IF IsHttpUrl(downloadItem.url) THEN "fetchImg" ELSE "done"]
             ELSE [rec EXCEPT !.pc = "done"]]

\* fetch or response.blob() rejects: the catch logs
DownloadFetchFailed(d) ==
    /\ downloads[d].pc \in {"fetchZip", "fetchImg"}
    /\ downloads' = [downloads EXCEPT ![d].pc = "done"]

\* reader.onloadend for a fetched ZIP (background.ts:235-238)
DownloadZipLoaded(d, data) ==
    /\ downloads[d].pc = "fetchZip"
    /\ \E t \in TaskIds :
          /\ ProcessZipData(t, data, downloads[d].item.url, NoTab)
          /\ downloads' = [downloads EXCEPT ![d].pc = "done", ![d].task = t]

\* reader.onloadend for a fetched image (background.ts:259-262)
DownloadImageLoaded(d, base64data) ==
    /\ downloads[d].pc = "fetchImg"
    /\ \E t \in TaskIds :
          /\ SaveSingleImageDesign(t, base64data, downloads[d].item.url,
                                   downloads[d].item.filename)
          /\ downloads' = [downloads EXCEPT ![d].pc = "done", ![d].task = t]

DownloadInit == downloads = [d \in DlIds |-> IdleDownload]

\* ------------------------------------------------------------------------
\* Side panel management (background.ts:27-49, 140-175, 400-442)
\* ------------------------------------------------------------------------
\* both tabs of the model are in one window
WindowOf(tab) == 1

\* Date.now() when the model starts: any value a second or more above 0,
\* the default of a missing lastToggleTimes entry
StartTime == 10000

UrlPool == { <<"h","t","t","p","s",":","/","/","s","t","i","t","c","h",".","w","i","t","h","g","o","o","g","l","e",".","c","o","m","/","p">>, <<"h","t","t","p","s",":","/","/","e","x","a","m","p","l","e",".","c","o","m","/">> }

\* background.ts:402-405
IsStitchUrl(url) ==
    /\ url # <<>>
    /\ \E k \in 1..Len(STITCH_DOMAINS) : Includes(url, STITCH_DOMAINS[k])

\* variant: no stuck-panel detection
IsStuck_Never(hasPanel, dNow, lastToggle) == FALSE

\* background.ts:152
IsStuck(hasPanel, dNow, lastToggle) == ~hasPanel /\ (dNow - lastToggle < 1000)

\* the events the listeners have been given so far
PanelEvents == Len(toggleLog) + navCount

\* the panel of the window closes when it is disabled for the tab it shows on
OpenAfterOptions(tab, enabled) ==
    IF ~enabled /\ activeTabId = tab THEN FALSE ELSE panelOpen

\* onMessage, TOGGLE_SIDE_PANEL from the content script of tab, up to the
\* setTimeout of the close branch (background.ts:140-175)
TogglePanel(tab) ==
    /\ PanelEvents < MaxPanelEvents
    /\ csActive[tab]
    /\ LET windowId   == WindowOf(tab)
           lastToggle == lastToggleTimes[tab]
           hasPanel   == windowId \in openSidePanels
           isStuck    == IsStuck(hasPanel, dateNow, lastToggle)
       IN  /\ lastToggleTimes' = [lastToggleTimes EXCEPT ![tab] = dateNow]
           /\ IF hasPanel \/ isStuck
              THEN /\ panelEnabled' = [panelEnabled EXCEPT ![tab] = FALSE]
                   /\ panelOpen' = OpenAfterOptions(tab, FALSE)
                   /\ reenableTimers' = reenableTimers \cup {[tab |-> tab, isStuck |-> isStuck]}
                   /\ toggleLog' = Append(toggleLog,
                         [tab |-> tab, at |-> dateNow, believedOpen |-> hasPanel,
                          did |-> "cycle", isStuck |-> isStuck])
              ELSE /\ panelEnabled' = [panelEnabled EXCEPT ![tab] = TRUE]
                   /\ panelOpen' = TRUE
                   /\ reenableTimers' = reenableTimers
                   /\ toggleLog' = Append(toggleLog,
                         [tab |-> tab, at |-> dateNow, believedOpen |-> hasPanel,
                          did |-> "open", isStuck |-> isStuck])
    /\ UNCHANGED <<dateNow, openSidePanels, tabUrl, csActive, activeTabId, visQueue, navCount>>

\* the setTimeout callback of the close branch (background.ts:159-165)
ReenableTimerFire(tm) ==
    /\ tm \in reenableTimers
    /\ reenableTimers' = reenableTimers \ {tm}
    /\ panelEnabled' = [panelEnabled EXCEPT ![tm.tab] = TRUE]
    /\ UNCHANGED <<dateNow, openSidePanels, panelOpen, lastToggleTimes, tabUrl, csActive,
                   activeTabId, visQueue, toggleLog, navCount>>

\* the side panel page has loaded and its INIT message arrives (background.ts:33-40)
PortInit ==
    /\ panelOpen
    /\ 1 \notin openSidePanels
    /\ openSidePanels' = openSidePanels \cup {1}
    /\ UNCHANGED <<dateNow, panelOpen, lastToggleTimes, panelEnabled, tabUrl, csActive,
                   activeTabId, visQueue, reenableTimers, toggleLog, navCount>>

\* the side panel page is gone and its port disconnects (background.ts:42-47)
PortDisconnect ==
    /\ ~panelOpen
    /\ 1 \in openSidePanels
    /\ openSidePanels' = openSidePanels \ {1}
    /\ UNCHANGED <<dateNow, panelOpen, lastToggleTimes, panelEnabled, tabUrl, csActive,
                   activeTabId, visQueue, reenableTimers, toggleLog, navCount>>

\* chrome.tabs.onUpdated with a new URL: the listener calls
\* updateSidePanelVisibility, which awaits the settings; the content script
\* of the new page starts if the page is a Stitch page or experimental mode
\* is on (background.ts:428-432, 407-408; content script lines 9-17)
TabUpdated(tab, url) ==
    /\ PanelEvents < MaxPanelEvents
    /\ url # tabUrl[tab]
    /\ tabUrl' = [tabUrl EXCEPT ![tab] = url]
    /\ csActive' = [csActive EXCEPT ![tab] = IsStitchUrl(url) \/ ExperimentalOf(settings)]
    /\ visQueue' = Append(visQueue, [tab |-> tab, url |-> url])
    /\ navCount' = navCount + 1
    /\ UNCHANGED <<dateNow, openSidePanels, panelOpen, lastToggleTimes, panelEnabled,
                   activeTabId, reenableTimers, toggleLog>>

\* chrome.tabs.onActivated, up to the await in updateSidePanelVisibility
\* (background.ts:435-442, 407-408)
TabActivated(tab) ==
    /\ PanelEvents < MaxPanelEvents
    /\ tab # activeTabId
    /\ activeTabId' = tab
    /\ visQueue' = Append(visQueue, [tab |-> tab, url |-> tabUrl[tab]])
    /\ navCount' = navCount + 1
    /\ UNCHANGED <<dateNow, openSidePanels, panelOpen, lastToggleTimes, panelEnabled, tabUrl,
                   csActive, reenableTimers, toggleLog>>

\* updateSidePanelVisibility after the settings have resolved (background.ts:409-424)
UpdateSidePanelVisibility ==
    /\ visQueue # <<>>
    /\ LET tabId == Head(visQueue).tab
           url   == Head(visQueue).url
           experimental == ExperimentalOf(settings)
           enabled == IsStitchUrl(url) \/ experimental
       IN  /\ panelEnabled' = [panelEnabled EXCEPT ![tabId] = enabled]
           /\ panelOpen' = OpenAfterOptions(tabId, enabled)
    /\ visQueue' = Tail(visQueue)
    /\ UNCHANGED <<dateNow, openSidePanels, lastToggleTimes, tabUrl, csActive, activeTabId,
                   reenableTimers, toggleLog, navCount>>

\* time passes
PanelTick ==
    /\ dateNow + TickMs <= StartTime + MaxPanelTime
    /\ dateNow' = dateNow + TickMs
    /\ UNCHANGED <<openSidePanels, panelOpen, lastToggleTimes, panelEnabled, tabUrl, csActive,
                   activeTabId, visQueue, reenableTimers, toggleLog, navCount>>

\* both tabs show a Stitch page with the panel enabled and closed, and no
\* toggle has been made
PanelInit ==
    /\ dateNow = StartTime
    /\ openSidePanels = {}
    /\ panelOpen = FALSE
    /\ lastToggleTimes = [t \in Tabs |-> 0]
    /\ panelEnabled = [t \in Tabs |-> TRUE]
    /\ tabUrl = [t \in Tabs |-> <<"h","t","t","p","s",":","/","/","s","t","i","t","c","h",".","w","i","t","h","g","o","o","g","l","e",".","c","o","m","/","p">>]
    /\ csActive = [t \in Tabs |-> TRUE]
    /\ activeTabId = 1
    /\ visQueue = <<>>
    /\ reenableTimers = {}
    /\ toggleLog = <<>>
    /\ navCount = 0

\* ------------------------------------------------------------------------
\* The page interceptor (inject.js:4-30)
\* ------------------------------------------------------------------------
\* arguments the host page passes to URL.createObjectURL
BlobObj(type, size, content) ==
    [kind |-> "Blob", type |-> type, size |-> size, content |-> content]

MediaSourceObj == [kind |-> "MediaSource", type |-> "", size |-> 0, content |-> ""]

\* a value the original rejects with a TypeError
NotAnObject == [kind |-> "string", type |-> "", size |-> 0, content |-> ""]

PageObjects ==
    { BlobObj("application/zip", 10, "zip1"),
      BlobObj("", 2000, "zip2"),
      BlobObj("image/png", 1001, "png1"),
      BlobObj("text/plain", 1000, "txt1"),
      BlobObj("", 10, "bin1"),
      MediaSourceObj,
      NotAnObject }

\* what a call gives its caller: a returned URL (blob URLs are numbered in
\* the order in which the browser makes them) or a thrown exception
Returned(n) == [threw |-> FALSE, url |-> n]

Threw == [threw |-> TRUE, url |-> 0]

\* the browser's URL.createObjectURL, with made as the number of URLs it has
\* made so far
OriginalCreateObjectURL(made, obj) ==
    IF obj.kind \in {"Blob", "MediaSource"}
    THEN [outcome |-> Returned(made + 1), made |-> made + 1]
    ELSE [outcome |-> Threw, made |-> made]

\* inject.js:11
IsIntercepted(obj) ==
    obj.kind = "Blob" /\ (obj.type = "application/zip" \/ obj.size > 1000)

\* variant: an intercepted call returns the URL of a second call of the
\* original
WrapperCalls_Twice(obj) == IF IsIntercepted(obj) THEN <<obj, obj>> ELSE <<obj>>

\* the calls of the original one wrapper call makes (inject.js:8)
WrapperCalls(obj) == <<obj>>

RECURSIVE CallOriginal(_, _)
\* the original called on each of args in turn: the outcome of the last
\* call, or the first exception
CallOriginal(made, args) ==
    LET r == OriginalCreateObjectURL(made, Head(args)) IN
    IF Len(args) = 1 \/ r.outcome.threw THEN r
    ELSE CallOriginal(r.made, Tail(args))

\* the patched window.URL.createObjectURL called by the host page
PatchedCreateObjectURL(obj) ==
    /\ Len(pageCalls) < MaxPageCalls
    /\ LET r == CallOriginal(urlsMade, WrapperCalls(obj))
           plain == OriginalCreateObjectURL(plainUrlsMade, obj)
       IN  /\ urlsMade' = r.made
           /\ originalCalls' = originalCalls \o
                 (IF r.outcome.threw THEN <<obj>> ELSE WrapperCalls(obj))
           /\ pageCalls' = Append(pageCalls, [obj |-> obj, outcome |-> r.outcome])
           /\ readers' = IF ~r.outcome.threw /\ IsIntercepted(obj)
                         THEN readers \cup {[url |-> r.outcome.url, obj |-> obj]}
                         ELSE readers
           /\ plainUrlsMade' = plain.made
           /\ plainOutcomes' = Append(plainOutcomes, plain.outcome)
    /\ UNCHANGED dispatched

\* reader.onloadend: the STITCH_BLOB_INTERCEPTED event is dispatched
\* (inject.js:17-25)
ReaderLoadEnd(rd) ==
    /\ rd \in readers
    /\ readers' = readers \ {rd}
    /\ dispatched' = Append(dispatched, [url |-> rd.url, data |-> rd.obj.content])
    /\ UNCHANGED <<urlsMade, originalCalls, pageCalls, plainUrlsMade, plainOutcomes>>

InjectInit ==
    /\ urlsMade = 0
    /\ originalCalls = <<>>
    /\ pageCalls = <<>>
    /\ readers = {}
    /\ dispatched = <<>>
    /\ plainUrlsMade = 0
    /\ plainOutcomes = <<>>

\* ------------------------------------------------------------------------
\* The clipboard UI: side panel (App, ExportCard) and preview page
\* ------------------------------------------------------------------------
UiIds == 1..MaxUiOps

\* the characters /[<>:"/\\|?*]/ matches
InvalidTitleChars == {"<", ">", ":", "\"", "/", "\\", "|", "?", "*"}

RECURSIVE StripInvalid(_)
\* .replace(/[<>:"/\\|?*]/g, '')
StripInvalid(s) ==
    IF Len(s) = 0 THEN <<>>
    ELSE IF Head(s) \in InvalidTitleChars THEN StripInvalid(Tail(s))
    ELSE <<Head(s)>> \o StripInvalid(Tail(s))

RECURSIVE TrimStart(_)
TrimStart(s) == IF Len(s) > 0 /\ IsSpace(Head(s)) THEN TrimStart(Tail(s)) ELSE s

RECURSIVE TrimEnd(_)
TrimEnd(s) == IF Len(s) > 0 /\ IsSpace(Last(s)) THEN TrimEnd(Front(s)) ELSE s

\* String.prototype.trim
Trim(s) == TrimEnd(TrimStart(s))

\* ExportCard.tsx:47, preview page line 88
SanitizeTitle(typed) == Trim(StripInvalid(typed))

UntitledDesign == <<"U","n","t","i","t","l","e","d"," ","D","e","s","i","g","n">>

\* variant: the card stores "Untitled Design" when nothing remains
CardFinalTitle_Fallback(sanitized, item) ==
    [rename |-> TRUE, title |-> IF sanitized # <<>> THEN sanitized ELSE UntitledDesign]

\* ExportCard handleSaveTitle: the rename it asks for, or none
\* (ExportCard.tsx:49-54)
CardFinalTitle(sanitized, item) ==
    IF sanitized # <<>> THEN [rename |-> TRUE, title |-> sanitized]
    ELSE [rename |-> FALSE, title |-> item.title]

\* preview page handleSaveTitle: sanitized || 'Untitled Design' (line 89)
PreviewFinalTitle(sanitized) == IF sanitized # <<>> THEN sanitized ELSE UntitledDesign

\* items.map(item => item.id === id ? { ...item, title } : item)
RenameIn(items, id, title) ==
    [k \in 1..Len(items) |-> IF items[k].id = id THEN [items[k] EXCEPT !.title = title]
                             ELSE items[k]]

\* variant: the save writes the edited text into every item
SaveCodeIn_All(items, id, html) ==
    [k \in 1..Len(items) |-> [items[k] EXCEPT !.html = html]]

\* items.map(item => item.id === data.id ? { ...item, html: data.html } : item)
SaveCodeIn(items, id, html) ==
    [k \in 1..Len(items) |-> IF items[k].id = id THEN [items[k] EXCEPT !.html = html]
                             ELSE items[k]]

RECURSIVE DeleteIn(_, _)
\* items.filter(item => item.id !== id)
DeleteIn(items, id) ==
    IF Len(items) = 0 THEN <<>>
    ELSE IF Head(items).id = id THEN DeleteIn(Tail(items), id)
    ELSE <<Head(items)>> \o DeleteIn(Tail(items), id)

\* the preview page's data state and the previewData storage key: null, or
\* an item
NoPreview == [present |-> FALSE, id |-> 0, html |-> HtmlText(""), image |-> NullRef,
              sourceUrl |-> "", title |-> <<>>]

PreviewOf(item) == [present |-> TRUE, id |-> item.id, html |-> item.html, image |-> item.image,
                    sourceUrl |-> item.sourceUrl, title |-> item.title]

\* a user action that writes capturedItems: kind is the handler, id the item
\* it is about, typed the text typed as title, title and html the values it
\* stores, wrote whether it asked for a storage write, updated the collection
\* it writes, newData the previewData it writes, readVer the version of
\* capturedItems its snapshot comes from, writeVer the version it made
IdleUiWrite == [pc |-> "idle", kind |-> "none", id |-> 0, typed |-> <<>>, title |-> <<>>,
                html |-> HtmlText(""), wrote |-> FALSE, updated |-> <<>>,
                newData |-> NoPreview, readVer |-> 0, writeVer |-> 0]

FreeUiWrite(u) ==
    uiWrites[u].pc = "idle" /\ \A v \in UiIds : v < u => uiWrites[v].pc # "idle"

\* ExportCard handleSaveTitle on card k with typed in the input, and App
\* handleRename when it is called (ExportCard.tsx:45-56, App lines 169-175)
CardSaveTitle(u, k, typed) ==
    /\ FreeUiWrite(u)
    /\ k \in 1..Len(spItems)
    /\ LET item == spItems[k]
           final == CardFinalTitle(SanitizeTitle(typed), item)
           newItems == RenameIn(spItems, item.id, final.title)
       IN  IF final.rename
           THEN /\ spItems' = newItems
                /\ uiWrites' = [uiWrites EXCEPT ![u] =
                      [IdleUiWrite EXCEPT !.pc = "set", !.kind = "cardRename", !.id = item.id,
                                          !.typed = typed, !.title = final.title, !.wrote = TRUE,
                                          !.updated = newItems, !.readVer = spVer]]
           ELSE /\ spItems' = spItems
                /\ uiWrites' = [uiWrites EXCEPT ![u] =
                      [IdleUiWrite EXCEPT !.pc = "done", !.kind = "cardRename", !.id = item.id,
                                          !.typed = typed, !.title = final.title]]
    /\ UNCHANGED <<spVer, spEvents, previewData, pvData, pvUnsaved>>

\* App handleDelete for card k (App lines 158-162)
HandleDelete(u, k) ==
    /\ FreeUiWrite(u)
    /\ k \in 1..Len(spItems)
    /\ LET newItems == DeleteIn(spItems, spItems[k].id) IN
       /\ spItems' = newItems
       /\ uiWrites' = [uiWrites EXCEPT ![u] =
             [IdleUiWrite EXCEPT !.pc = "set", !.kind = "delete", !.id = spItems[k].id,
                                 !.wrote = TRUE, !.updated = newItems, !.readVer = spVer]]
    /\ UNCHANGED <<spVer, spEvents, previewData, pvData, pvUnsaved>>

\* the side panel's handleStorageChange for capturedItems (App lines 120-123)
SidePanelStorageChange ==
    /\ spEvents # <<>>
    /\ spItems' = Head(spEvents).items
    /\ spVer' = Head(spEvents).ver
    /\ spEvents' = Tail(spEvents)
    /\ UNCHANGED <<uiWrites, previewData, pvData, pvUnsaved>>

\* the View Code / View Image button of card k: previewData is written, the
\* preview page opens and loads it (ExportCard.tsx:261-267, 294-300; preview
\* page lines 41-53)
OpenPreview(k) ==
    /\ ~pvData.present
    /\ k \in 1..Len(spItems)
    /\ previewData' = PreviewOf(spItems[k])
    /\ pvData' = PreviewOf(spItems[k])
    /\ pvUnsaved' = FALSE
    /\ UNCHANGED <<spItems, spVer, spEvents, uiWrites>>

\* preview page handleEditorChange (lines 175-180)
HandleEditorChange(value) ==
    /\ pvData.present
    /\ value # pvData.html
    /\ pvData' = [pvData EXCEPT !.html = value]
    /\ pvUnsaved' = TRUE
    /\ UNCHANGED <<spItems, spVer, spEvents, uiWrites, previewData>>

\* preview page handleSaveTitle with typed in the input, up to the storage
\* read request (lines 86-98)
PreviewSaveTitle(u, typed) ==
    /\ FreeUiWrite(u)
    /\ pvData.present
    /\ LET finalTitle == PreviewFinalTitle(SanitizeTitle(typed))
           newData == [pvData EXCEPT !.title = finalTitle]
       IN  /\ pvData' = newData
           /\ uiWrites' = [uiWrites EXCEPT ![u] =
                 [IdleUiWrite EXCEPT !.pc = "get", !.kind = "previewRename", !.id = pvData.id,
                                     !.typed = typed, !.title = finalTitle, !.wrote = TRUE,
                                     !.newData = newData]]
    /\ UNCHANGED <<spItems, spVer, spEvents, previewData, pvUnsaved>>

\* preview page handleSaveCode, the Save Changes button shown while there are
\* unsaved changes, up to the storage read request (lines 155-162, 242-245)
HandleSaveCode(u) ==
    /\ FreeUiWrite(u)
    /\ pvData.present
    /\ pvUnsaved
    /\ pvUnsaved' = FALSE
    /\ uiWrites' = [uiWrites EXCEPT ![u] =
          [IdleUiWrite EXCEPT !.pc = "get", !.kind = "saveCode", !.id = pvData.id,
                              !.html = pvData.html, !.wrote = TRUE, !.newData = pvData]]
    /\ UNCHANGED <<spItems, spVer, spEvents, previewData, pvData>>

\* the storage read callback of handleSaveTitle or handleSaveCode: maps the
\* collection it read and requests the write (lines 98-107, 162-171)
PreviewGetCallback(u) ==
    /\ uiWrites[u].pc = "get"
    /\ uiWrites' = [uiWrites EXCEPT
          ![u].pc = "set",
          ![u].readVer = storeVersion,
          ![u].updated = IF uiWrites[u].kind = "saveCode"
                         THEN SaveCodeIn(capturedItems, uiWrites[u].id, uiWrites[u].html)
                         ELSE RenameIn(capturedItems, uiWrites[u].id, uiWrites[u].title)]
    /\ UNCHANGED <<spItems, spVer, spEvents, previewData, pvData, pvUnsaved>>

\* a write requested by the UI reaches the storage and the change is
\* announced to the side panel; the handler's locals are gone
UiSetApply(u) ==
    /\ uiWrites[u].pc = "set"
    /\ capturedItems' = uiWrites[u].updated
    /\ prevStore' = capturedItems
    /\ storeVersion' = storeVersion + 1
    /\ previewData' = IF uiWrites[u].kind \in {"previewRename", "saveCode"}
                      THEN uiWrites[u].newData ELSE previewData
    /\ uiWrites' = [uiWrites EXCEPT ![u].pc = "done", ![u].writeVer = storeVersion + 1,
                                    ![u].updated = <<>>, ![u].newData = NoPreview]
    /\ spEvents' = Append(spEvents, [items |-> uiWrites[u].updated, ver |-> storeVersion + 1])
    /\ lastWriter' = 0
    /\ UNCHANGED <<spItems, spVer, pvData, pvUnsaved, tasks, nextId, escaped, inbox,
                   exportsHandled>>

\* the write of an ingestion reaches the storage; the change is announced to
\* the side panel
IngestSetApply(t) ==
    /\ StorageSetApply(t)
    /\ spEvents' = Append(spEvents, [items |-> capturedItems', ver |-> storeVersion'])
    /\ UNCHANGED <<spItems, spVer, previewData, pvData, pvUnsaved, uiWrites>>

\* the texts typed into a title input
TypedTitles == { <<" ","a","<","b",">"," ">>, <<"?","?","?">>, <<"N","e","w">>, <<" ">> }

\* the texts the editor is changed to
EditorTexts == { HtmlText("<p>edit</p>") }

\* the clipboard holds the two items of an ingested export and the side
\* panel has loaded them
ClipboardLoaded ==
    /\ capturedItems = ReconstructItems(A_Scenario, "blob:export", 1)
    /\ tasks = [t \in TaskIds |-> IdleTask]
    /\ nextId = 3
    /\ escaped = {}
    /\ inbox = {}
    /\ storeVersion = 1
    /\ prevStore = <<>>
    /\ lastWriter = 0
    /\ exportsHandled = {}
    /\ spItems = ReconstructItems(A_Scenario, "blob:export", 1)
    /\ spVer = 1
    /\ spEvents = <<>>
    /\ previewData = NoPreview
    /\ pvData = NoPreview
    /\ pvUnsaved = FALSE
    /\ uiWrites = [u \in UiIds |-> IdleUiWrite]

\* the side panel is closed and no preview page is open
UiInit ==
    /\ spItems = <<>>
    /\ spVer = 0
    /\ spEvents = <<>>
    /\ previewData = NoPreview
    /\ pvData = NoPreview
    /\ pvUnsaved = FALSE
    /\ uiWrites = [u \in UiIds |-> IdleUiWrite]

\* ------------------------------------------------------------------------
\* Export actions (ExportCard handleDownload, preview page handleDownload,
\* App handleDownloadAll)
\* ------------------------------------------------------------------------
\* what an entry of a generated ZIP holds
NoContent == [kind |-> "dir", html |-> HtmlText(""), data |-> ""]

HtmlContent(h) == [kind |-> "text", html |-> h, data |-> ""]

\* item.image.split(',')[1] added with { base64: true }
Base64Of(image) == [kind |-> "base64", html |-> HtmlText(""), data |-> image.data]

\* JSZip file(name, data): the entry at that path is added or replaced
ZipFile(zip, path, content) ==
    {e \in zip : e.path # path} \cup {[path |-> path, dir |-> FALSE, content |-> content]}

\* JSZip folder(name): the directory entry is added unless it is there
ZipFolder(zip, name) ==
    IF \E e \in zip : e.path = <<name>> THEN zip
    ELSE zip \cup {[path |-> <<name>>, dir |-> TRUE, content |-> NoContent]}

RECURSIVE ToDigits(_)
\* the decimal digits of a number, as template literals print it
ToDigits(n) ==
    LET d == <<"0","1","2","3","4","5","6","7","8","9">>[(n % 10) + 1]
    IN  IF n < 10 THEN <<d>> ELSE Append(ToDigits(n \div 10), d)

\* item.title || 'design'
CardFolderName(item) == IF item.title # <<>> THEN item.title ELSE <<"d","e","s","i","g","n">>

\* item.title || `Design_${index + 1}`, index counted from 0
AllFolderName(item, index) ==
    IF item.title # <<>> THEN item.title ELSE <<"D","e","s","i","g","n","_">> \o ToDigits(index + 1)

\* zip.folder(folderName) and the two conditional folder.file calls
\* (ExportCard.tsx:62-72, App lines 183-193)
AddItemFolder(zip, item, folderName) ==
    LET z1 == ZipFolder(zip, folderName)
        z2 == IF HtmlNonEmpty(item.html)
              THEN ZipFile(z1, <<folderName, folderName \o <<".","h","t","m","l">>>>, HtmlContent(item.html))
              ELSE z1
    IN  IF ImageNonEmpty(item.image)
        THEN ZipFile(z2, <<folderName, folderName \o <<".","p","n","g">>>>, Base64Of(item.image))
        ELSE z2

\* the two zip.file calls of the preview page (part_001 lines 139-143)
AddPreviewFiles(zip, data, folderName) ==
    LET z1 == ZipFile(zip, <<folderName \o <<".","h","t","m","l">>>>, HtmlContent(data.html))
    IN  IF ImageNonEmpty(data.image)
        THEN ZipFile(z1, <<folderName \o <<".","p","n","g">>>>, Base64Of(data.image))
        ELSE z1

RECURSIVE AddAll(_, _, _)
\* items.forEach((item, index) => ...) from position k on
AddAll(zip, items, k) ==
    IF k > Len(items) THEN zip
    ELSE AddAll(AddItemFolder(zip, items[k], AllFolderName(items[k], k - 1)), items, k + 1)

\* new Date().toISOString().split('T')[0]
ExportDate == <<"2","0","2","4","-","0","5","-","0","1">>

NoBundle == [present |-> FALSE, by |-> "none", files |-> {}, download |-> <<>>,
             exported |-> <<>>]

\* ExportCard handleDownload on card k
CardDownload(k) ==
    /\ k \in 1..Len(spItems)
    /\ LET item == spItems[k]
           folderName == CardFolderName(item)
       IN  bundle' = [present |-> TRUE, by |-> "card",
                      files |-> AddItemFolder({}, item, folderName),
                      download |-> folderName \o <<".","z","i","p">>,
                      exported |-> <<item>>]

\* preview page handleDownload
PreviewDownload ==
    /\ pvData.present
    /\ LET folderName == CardFolderName(pvData)
       IN  bundle' = [present |-> TRUE, by |-> "preview",
                      files |-> AddPreviewFiles({}, pvData, folderName),
                      download |-> folderName \o <<".","z","i","p">>,
                      exported |-> <<[id |-> pvData.id, html |-> pvData.html,
                                      image |-> pvData.image, sourceUrl |-> pvData.sourceUrl,
                                      title |-> pvData.title]>>]

\* App handleDownloadAll
HandleDownloadAll ==
    bundle' = [present |-> TRUE, by |-> "all",
               files |-> AddAll({}, spItems, 1),
               download |-> <<"X","S","t","i","t","c","h","_","D","e","s","i","g","n","s","_">> \o ExportDate \o <<".","z","i","p">>,
               exported |-> spItems]

\* the titles, html and images items of the clipboard are drawn from
ExportTitles == { <<"S","c","r","e","e","n","A">>, <<"S","c","r","e","e","n","B">>, <<>> }

ExportShapes ==
    [title : ExportTitles, html : {HtmlText("h1"), HtmlText("")},
     image : {DataUrl(<<"p","n","g">>, "p1"), NullRef}]

ExportClipboards ==
    UNION { { [k \in 1..n |-> [id |-> k, html |-> f[k].html, image |-> f[k].image,
                               sourceUrl |-> "blob:export", title |-> f[k].title]] :
              f \in [1..n -> ExportShapes] } : n \in 1..MaxExportItems }

ExportInit == bundle = NoBundle

\* ------------------------------------------------------------------------
\* Title derivation (processZipData, lines 353-364)
\* ------------------------------------------------------------------------
\* the folder names group keys are made of
TitleSegments ==
    { <<"H","o","m","e","_","P","a","g","e">>, <<"_","c","a","n","v","a","s","_","s","c","r","e","e","n">>, <<"M","y","_","B","u","t","t","o","n">>, <<"S","t","i","t","c","h","_","L","a","n","d","i","n","g">>,
      <<"S","T","I","T","C","H","_","L","a","n","d","i","n","g">>, <<"s","t","i","t","c","h","_","_","h","o","m","e">>, <<"S","t","i","t","c","h","e","r">>, <<"l","o","g","i","n","-","p","a","g","e">>,
      <<"S","t","i","t","c","h","_">>, <<"2","n","d","_","v","i","e","w">> }

\* parts.join('/') of 1..MaxSegments folder names, and "" for the root
TitleKeys ==
    {<<>>} \cup UNION { { Join(f, "/") : f \in [1..n -> TitleSegments] } : n \in 1..MaxSegments }

NoTitle == [done |-> FALSE, title |-> <<>>]

\* the title clean-up of one group (lines 353-364)
DeriveStep ==
    /\ ~derived.done
    /\ derived' = [done |-> TRUE, title |-> DeriveTitle(groupKey)]
    /\ UNCHANGED groupKey

TitleInit == groupKey = <<>> /\ derived = NoTitle

\* ------------------------------------------------------------------------
\* Editor scraping (content script, tryGetCodeFromEditor, lines 285-366)
\* ------------------------------------------------------------------------
\* the element standing for U+00A0 in a line's innerText
Nbsp == "nbsp"

\* text.length > 50 (lines 298, 323, 331, 350)
MinCodeLength == 50

VisibleNote == <<"<","!","-","-"," ","N","O","T","E",":"," ","C","a","p","t","u","r","e","d"," ","V","I","S","I","B","L","E"," ","c","o","d","e"," ","o","n","l","y","."," ","T","o"," ","g","e","t"," ","t","h","e"," ","f","u","l","l"," ","f","i","l","e",","," ","p","l","e","a","s","e"," ","a","l","l","o","w"," ","c","l","i","p","b","o","a","r","d"," ","p","e","r","m","i","s","s","i","o","n","s"," ","o","r"," ","u","s","e"," ","t","h","e"," ","'","C","o","p","y"," ","c","o","d","e","'"," ","b","u","t","t","o","n"," ","m","a","n","u","a","l","l","y","."," ","-","-",">">>

DoctypeLine == <<"<","!","D","O","C","T","Y","P","E"," ","h","t","m","l",">">>

FragmentLine == <<"<","s","e","c","t","i","o","n"," ","i","d","=","m","a","i","n",">">>

BodyLine(k) == <<Nbsp, Nbsp>> \o <<"<","p",">","l","i","n","e"," ","n","u","m","b","e","r"," ">> \o ToDigits(k) \o <<" ","o","f"," ","t","h","e"," ","p","a","g","e","<","/","p",">">>

\* the documents open in the editor: a whole page or a fragment, n lines
EditorDoc(kind, n) ==
    [k \in 1..n |-> IF k = 1 THEN (IF kind = "page" THEN DoctypeLine ELSE FragmentLine)
                    ELSE BodyLine(k)]

\* the document as the clipboard or a selection of all of it holds it
FullText(doc) ==
    Join([k \in 1..Len(doc) |-> [i \in 1..Len(doc[k]) |->
             IF doc[k][i] = Nbsp THEN " " ELSE doc[k][i]]], "\n")

\* the .view-line elements Monaco has rendered: one per line of the
\* document in the viewport, positioned by style.top
LineHeight == 19

RenderedLines(doc, first, height) ==
    [k \in 1..(IF first + height - 1 <= Len(doc) THEN height ELSE Len(doc) - first + 1) |->
        [top |-> (first + k - 2) * LineHeight, text |-> doc[first + k - 1]]]

Reversed(s) == [k \in 1..Len(s) |-> s[Len(s) + 1 - k]]

RECURSIVE SortByTop(_)
\* codeLines.sort((a, b) => topA - topB)
SortByTop(lines) ==
    IF Len(lines) <= 1 THEN lines
    ELSE LET m == CHOOSE i \in 1..Len(lines) :
                    /\ \A j \in 1..Len(lines) : lines[i].top <= lines[j].top
                    /\ \A j \in 1..(i - 1) : lines[j].top # lines[i].top
         IN  <<lines[m]>>
               \o SortByTop([k \in 1..(Len(lines) - 1) |-> IF k < m THEN lines[k] ELSE lines[k + 1]])

\* line.innerText.replace(/\u00a0/g, ' ')
ReplaceNbsp(t) == [i \in 1..Len(t) |-> IF t[i] = Nbsp THEN " " ELSE t[i]]

\* codeLines.map(...).join('\n')
VisibleText(lines) ==
    LET sorted == SortByTop(lines)
    IN  Join([k \in 1..Len(sorted) |-> ReplaceNbsp(sorted[k].text)], "\n")

NoCode == [found |-> FALSE, text |-> <<>>, by |-> "none"]

\* strategy 4 (lines 337-363)
ScrapeViewLines_NoteAlways(env) ==
    LET text == VisibleText(env.viewLines)
    IN  IF ~env.hasViewLines \/ Len(env.viewLines) = 0 \/ Len(text) <= MinCodeLength THEN NoCode
        ELSE [found |-> TRUE, text |-> VisibleNote \o <<"\n", "\n">> \o text, by |-> "viewLines"]

ScrapeViewLines(env) ==
    LET text == VisibleText(env.viewLines)
    IN  IF ~env.hasViewLines \/ Len(env.viewLines) = 0 \/ Len(text) <= MinCodeLength THEN NoCode
        ELSE IF StartsWith(Trim(text), <<"<","!","D","O","C","T","Y","P","E"," ","h","t","m","l">>)
        THEN [found |-> TRUE, text |-> text, by |-> "viewLines"]
        ELSE [found |-> TRUE, text |-> VisibleNote \o <<"\n", "\n">> \o text, by |-> "viewLines"]

\* tryGetCodeFromEditor: the four strategies in order (lines 285-366)
TryGetCodeFromEditor(env) ==
    IF env.copyButton /\ env.clipboard.readable /\ Len(env.clipboard.text) > MinCodeLength
    THEN [found |-> TRUE, text |-> env.clipboard.text, by |-> "clipboard"]
    ELSE IF env.editorNode /\ Len(env.selectedAll) > MinCodeLength
    THEN [found |-> TRUE, text |-> env.selectedAll, by |-> "selectAll"]
    ELSE IF ~env.editorNode /\ Len(env.selection) > MinCodeLength
    THEN [found |-> TRUE, text |-> env.selection, by |-> "selection"]
    ELSE ScrapeViewLines(env)

\* the pages the call can run on
EditorKinds == {"page", "fragment"}

EditorEnvs ==
    UNION { UNION { {
        [copyButton |-> cb, clipboard |-> clip, editorNode |-> ed,
         selectedAll |-> IF selAll THEN FullText(EditorDoc(kind, n)) ELSE <<>>,
         selection |-> IF userSel THEN FullText(EditorDoc(kind, n)) ELSE <<>>,
         hasViewLines |-> hv,
         viewLines |-> IF rev THEN Reversed(RenderedLines(EditorDoc(kind, n), first, height))
                       ELSE RenderedLines(EditorDoc(kind, n), first, height),
         doc |-> EditorDoc(kind, n)] :
           cb \in BOOLEAN, ed \in BOOLEAN, selAll \in BOOLEAN, userSel \in BOOLEAN, hv \in BOOLEAN,
           rev \in BOOLEAN,
           clip \in { [readable |-> FALSE, text |-> <<>>],
                      [readable |-> TRUE, text |-> <<"c","o","p","i","e","d">>],
                      [readable |-> TRUE, text |-> FullText(EditorDoc(kind, n))] },
           first \in 1..n, height \in 1..n } : n \in 2..MaxDocLines } : kind \in EditorKinds }

NoEnv ==
    [copyButton |-> FALSE, clipboard |-> [readable |-> FALSE, text |-> <<>>],
     editorNode |-> FALSE, selectedAll |-> <<>>, selection |-> <<>>, hasViewLines |-> FALSE,
     viewLines |-> <<>>, doc |-> <<>>]

\* one call of tryGetCodeFromEditor
GetCodeCall ==
    /\ codeResult = [done |-> FALSE, code |-> NoCode]
    /\ codeResult' = [done |-> TRUE, code |-> TryGetCodeFromEditor(editorEnv)]
    /\ UNCHANGED editorEnv

EditorInit == editorEnv = NoEnv /\ codeResult = [done |-> FALSE, code |-> NoCode]

\* ------------------------------------------------------------------------
\* Export trigger (content script, handleExportTrigger, lines 176-278)
\* ------------------------------------------------------------------------
TrigIds == 1..MaxTriggers

\* Date.now() - lastMouseMoveTime > 2000 (line 194)
FrameFreshMs == 2000

\* selection.toString().length > 50 (line 179)
MinSelectionLength == 50

IdleTrigger ==
    [pc |-> "idle", selLen |-> 0, at |-> 0, lastMove |-> 0, code |-> NoCode, target |-> FALSE,
     steps |-> <<>>, sent |-> <<>>, toasts |-> <<>>]

FreeTrigger(i) ==
    triggers[i].pc = "idle" /\ \A j \in TrigIds : j < i => triggers[j].pc # "idle"

\* the STITCH_EXPORT_FULL message sent with that payload
FullExport(html, image, title) ==
    [type |-> "STITCH_EXPORT_FULL",
     payload |-> [html |-> html, image |-> image,
                  sourceUrl |-> "https://stitch.withgoogle.com/p", title |-> title]]

\* the mousemove listener (lines 58-62)
MouseMove(over) ==
    /\ mouseOverNode' = over
    /\ lastMouseMoveTime' = csNow
    /\ UNCHANGED <<csNow, lastRightClickedElement, triggers>>

\* the contextmenu listener (lines 65-68); where is "inNode" when the
\* element is inside a .react-flow__node, "outside" when it is not
ContextMenu(where) ==
    /\ lastRightClickedElement' = where
    /\ lastMouseMoveTime' = csNow
    /\ UNCHANGED <<csNow, mouseOverNode, triggers>>

\* time passes in the frame
CsTick ==
    /\ csNow + FrameTickMs <= StartTime + MaxTime
    /\ csNow' = csNow + FrameTickMs
    /\ UNCHANGED <<lastMouseMoveTime, lastRightClickedElement, mouseOverNode, triggers>>

FrameIsStale_Never(at, last) == FALSE

\* Date.now() - lastMouseMoveTime > 2000
FrameIsStale(at, last) == at - last > FrameFreshMs

\* handleExportTrigger up to its first await: the selection check and the
\* frame check (lines 176-198); selLen is the length of the selection
TriggerStart(i, selLen) ==
    /\ FreeTrigger(i)
    /\ LET stale == FrameIsStale(csNow, lastMouseMoveTime)
           t == [IdleTrigger EXCEPT !.selLen = selLen, !.at = csNow, !.lastMove = lastMouseMoveTime]
       IN  triggers' = [triggers EXCEPT ![i] =
              IF selLen > MinSelectionLength
              THEN [t EXCEPT !.pc = "done", !.steps = <<"selection">>,
                             !.sent = <<FullExport(HtmlText("selected text"), NullRef, SelectedCode)>>,
                             !.toasts = <<"Selected Code Captured!">>]
              ELSE IF stale
              THEN [t EXCEPT !.pc = "done", !.steps = <<"selection", "frameCheck">>]
              ELSE [t EXCEPT !.pc = "editor", !.steps = <<"selection", "frameCheck">>,
                             !.toasts = <<"Analyzing...">>]]
    /\ UNCHANGED <<csNow, lastMouseMoveTime, lastRightClickedElement, mouseOverNode>>

\* the text of a scraped code as html of the payload
CodeHtml(res) == [kind |-> "code", text |-> "", src |-> NullRef, chars |-> res.text]

\* handleExportTrigger from the result of tryGetCodeFromEditor to its next
\* await or its end (lines 201-244): the Source Code export, or the search
\* for the node to capture
EditorResolved(i, res) ==
    /\ triggers[i].pc = "editor"
    /\ LET t == [triggers[i] EXCEPT !.code = res, !.steps = Append(@, "editor")]
           target == lastRightClickedElement = "inNode" \/ mouseOverNode
       IN  IF res.found
           THEN /\ triggers' = [triggers EXCEPT ![i] =
                      [t EXCEPT !.pc = "done",
                                !.sent = Append(@, FullExport(CodeHtml(res), NullRef, SourceCode)),
                                !.toasts = Append(@,
                                    IF Includes(res.text, <<"<","!","-","-"," ","N","O","T","E",":"," ","C","a","p","t","u","r","e","d"," ","V","I","S","I","B","L","E"," ","c","o","d","e"," ","o","n","l","y">>)
                                    THEN "Visible Code Captured." ELSE "Source Code Captured!")]]
                /\ UNCHANGED lastRightClickedElement
           ELSE /\ lastRightClickedElement' = "null"
                /\ triggers' = [triggers EXCEPT ![i] =
                      IF target
                      THEN [t EXCEPT !.pc = "image", !.target = TRUE, !.steps = Append(@, "visual")]
                      ELSE [t EXCEPT !.pc = "done", !.steps = Append(@, "nothingFound"),
                                     !.toasts = Append(@, "No Design or Code found.")]]
    /\ UNCHANGED <<csNow, lastMouseMoveTime, mouseOverNode>>

\* handleExportTrigger from the result of getHighResImage to its end
\* (lines 246-277); threw is an exception inside the try block
ImageResolved(i, image, threw) ==
    /\ triggers[i].pc = "image"
    /\ triggers' = [triggers EXCEPT ![i] =
          IF threw
          THEN [@ EXCEPT !.pc = "done", !.toasts = Append(@, "Export Failed.")]
          ELSE [@ EXCEPT !.pc = "done",
                         !.sent = Append(@, FullExport(HtmlText("<!-- STITCH DESIGN PREVIEW -->"),
                                                      image, VisualCapture)),
                         !.toasts = Append(@, "Image Captured.")]]
    /\ UNCHANGED <<csNow, lastMouseMoveTime, lastRightClickedElement, mouseOverNode>>

\* what tryGetCodeFromEditor can hand to the trigger: nothing, the copied
\* document, the visible lines of a fragment
TriggerCodes ==
    { NoCode,
      TryGetCodeFromEditor([NoEnv EXCEPT !.copyButton = TRUE,
          !.clipboard = [readable |-> TRUE, text |-> FullText(EditorDoc("page", 3))]]),
      TryGetCodeFromEditor([NoEnv EXCEPT !.hasViewLines = TRUE,
          !.viewLines = RenderedLines(EditorDoc("fragment", 3), 1, 2)]) }

\* what getHighResImage resolves with: the fetched data, the image's own URL, null
TriggerImages == { DataUrl(<<"p","n","g">>, "p1"), PathRef(<<"h","t","t","p","s",":","/","/","x","/","i",".","p","n","g">>), NullRef }

TriggerInit ==
    /\ csNow = StartTime
    /\ lastMouseMoveTime = 0
    /\ lastRightClickedElement = "null"
    /\ mouseOverNode = FALSE
    /\ triggers = [i \in TrigIds |-> IdleTrigger]

\* ------------------------------------------------------------------------
\* Side-panel ports (background.ts:29-49)
\* ------------------------------------------------------------------------
PortIds == 1..MaxPorts

Windows == {1, 2}

\* let winId: number | undefined, 0 standing for undefined
NoPort == [state |-> "none", winId |-> 0, inited |-> FALSE]

\* a side panel page connects (App lines 135-139, background.ts:29-31)
PortConnect(p) ==
    /\ ports[p].state = "none"
    /\ \A q \in PortIds : q < p => ports[q].state # "none"
    /\ ports' = [ports EXCEPT ![p].state = "connected"]
    /\ UNCHANGED <<broadcasts, panelVars>>

\* the port's onMessage listener receives the page's INIT (background.ts:32-40)
PortOnInit(p, windowId) ==
    /\ ports[p].state = "connected" /\ ~ports[p].inited
    /\ ports' = [ports EXCEPT ![p].winId = windowId, ![p].inited = TRUE]
    /\ openSidePanels' = openSidePanels \cup {windowId}
    /\ broadcasts' = broadcasts \cup {[windowId |-> windowId, isOpen |-> TRUE]}
    /\ UNCHANGED <<dateNow, panelOpen, lastToggleTimes, panelEnabled, tabUrl, csActive,
                   activeTabId, visQueue, reenableTimers, toggleLog, navCount>>

\* openSidePanels.delete(winId)
DeleteOnDisconnect(p) == openSidePanels \ {ports[p].winId}

\* the port's onDisconnect listener (background.ts:42-47)
PortOnDisconnect(p) ==
    /\ ports[p].state = "connected"
    /\ ports' = [ports EXCEPT ![p].state = "gone"]
    /\ IF ports[p].winId # 0
       THEN /\ openSidePanels' = DeleteOnDisconnect(p)
            /\ broadcasts' = broadcasts \cup {[windowId |-> ports[p].winId, isOpen |-> FALSE]}
       ELSE UNCHANGED <<openSidePanels, broadcasts>>
    /\ UNCHANGED <<dateNow, panelOpen, lastToggleTimes, panelEnabled, tabUrl, csActive,
                   activeTabId, visQueue, reenableTimers, toggleLog, navCount>>

PortsInit == ports = [p \in PortIds |-> NoPort] /\ broadcasts = {}

\* ------------------------------------------------------------------------
\* On-page notification (content script, showXStitchNotification, lines 105-172)
\* ------------------------------------------------------------------------
\* now - lastNotificationTime < 2000 (line 114)
DuplicateWindowMs == 2000

\* window.setTimeout(..., 10000) (lines 168-171)
AutoRemoveMs == 10000

NoTimeout == [set |-> FALSE, due |-> 0, element |-> 0]

IsDuplicate_Never(at, last) == FALSE

\* now - lastNotificationTime < 2000
IsDuplicate(at, last) == at - last < DuplicateWindowMs

\* showXStitchNotification(count) for a SHOW_XSTITCH_NOTIFICATION message; the
\* new element is named after the position of the message
ShowXStitchNotification(count) ==
    /\ Len(shows) < MaxShows
    /\ LET element == Len(shows) + 1
           displayed == pageIsTop /\ ~IsDuplicate(csNow, lastNotificationTime)
       IN  /\ shows' = Append(shows, [at |-> csNow, count |-> count, displayed |-> displayed])
           /\ IF displayed
              THEN /\ lastNotificationTime' = csNow
                   /\ pageNotifications' = {element}
                   /\ csNotificationTimeout' =
                         [set |-> TRUE, due |-> csNow + AutoRemoveMs, element |-> element]
              ELSE UNCHANGED <<lastNotificationTime, pageNotifications, csNotificationTimeout>>
    /\ UNCHANGED <<pageIsTop, triggerVars>>

\* the close button's click handler (lines 158-162)
NotificationClose(element) ==
    /\ element \in pageNotifications
    /\ pageNotifications' = pageNotifications \ {element}
    /\ UNCHANGED <<pageIsTop, lastNotificationTime, csNotificationTimeout, shows, triggerVars>>

\* the auto-remove timer fires (lines 168-171)
NotificationAutoRemove ==
    /\ csNotificationTimeout.set /\ csNow >= csNotificationTimeout.due
    /\ pageNotifications' = pageNotifications \ {csNotificationTimeout.element}
    /\ csNotificationTimeout' = NoTimeout
    /\ UNCHANGED <<pageIsTop, lastNotificationTime, shows, triggerVars>>

\* time passes in the frame, unless the auto-remove timer is due
ToastTick ==
    /\ csNow + FrameTickMs <= StartTime + MaxToastTime
    /\ ~(csNotificationTimeout.set /\ csNow >= csNotificationTimeout.due)
    /\ csNow' = csNow + FrameTickMs
    /\ UNCHANGED <<lastMouseMoveTime, lastRightClickedElement, mouseOverNode, triggers, toastVars>>

ToastInit ==
    /\ pageIsTop = TRUE
    /\ lastNotificationTime = 0
    /\ csNotificationTimeout = NoTimeout
    /\ pageNotifications = {}
    /\ shows = <<>>

\* ------------------------------------------------------------------------
\* One export seen by the page interceptor and by the download listener
\* (inject.js:6-56, background.ts:123-129, 203-268)
\* ------------------------------------------------------------------------
\* an export of the host page: how the page hands it to the browser (an object URL, an
\* anchor with a data URL, or a network URL), the object given to createObjectURL, the
\* payload as the interceptor reads it and as a fetch of the URL returns it, and the
\* download the browser creates for it
Artifact(via, obj, data, fetched, item) ==
    [via |-> via, obj |-> obj, data |-> data, fetched |-> fetched, item |-> item]

NoArtifact == Artifact("none", NotAnObject, Garbage, NullRef, NoDownload)

StitchPage == <<"h","t","t","p","s",":","/","/","s","t","i","t","c","h",".","w","i","t","h","g","o","o","g","l","e",".","c","o","m","/">>

Artifacts ==
    { Artifact("objectUrl", BlobObj("application/zip", 2000, "zip1"), ZipData(A_Scenario),
               NullRef,
               DownloadItem(<<"b","l","o","b",":","h","t","t","p","s",":","/","/","s","t","i","t","c","h",".","w","i","t","h","g","o","o","g","l","e",".","c","o","m","/","1">>, StitchPage,
                            <<"a","p","p","l","i","c","a","t","i","o","n","/","z","i","p">>, <<"e",".","z","i","p">>)),
      Artifact("objectUrl", BlobObj("text/plain", 1000, "txt1"), Garbage, NullRef,
               DownloadItem(<<"b","l","o","b",":","h","t","t","p","s",":","/","/","s","t","i","t","c","h",".","w","i","t","h","g","o","o","g","l","e",".","c","o","m","/","2">>, StitchPage,
                            <<"t","e","x","t","/","p","l","a","i","n">>, <<"n",".","t","x","t">>)),
      Artifact("dataAnchor", NotAnObject, ZipData(A_Scenario), NullRef,
               DownloadItem(<<"d","a","t","a",":","a","p","p","l","i","c","a","t","i","o","n","/","z","i","p",";","b","a","s","e","6","4",",","U","E","s">>, StitchPage,
                            <<"a","p","p","l","i","c","a","t","i","o","n","/","z","i","p">>, <<"e",".","z","i","p">>)),
      Artifact("dataAnchor", NotAnObject, ImageData(<<"p","n","g">>, "p3"), NullRef,
               DownloadItem(<<"d","a","t","a",":","i","m","a","g","e","/","p","n","g",";","b","a","s","e","6","4",",","i","V","B">>, StitchPage,
                            <<"i","m","a","g","e","/","p","n","g">>, <<"s",".","p","n","g">>)),
      Artifact("network", NotAnObject, ZipData(A_Scenario), NullRef,
               DownloadItem(<<"h","t","t","p","s",":","/","/","s","t","i","t","c","h",".","w","i","t","h","g","o","o","g","l","e",".","c","o","m","/","e">>, <<>>,
                            <<"a","p","p","l","i","c","a","t","i","o","n","/","z","i","p">>, <<"e",".","z","i","p">>)),
      Artifact("network", NotAnObject, Garbage, PngData,
               DownloadItem(<<"h","t","t","p","s",":","/","/","x",".","a","p","p","s","p","o","t",".","c","o","m","/","s">>, <<>>,
                            <<"i","m","a","g","e","/","p","n","g">>, <<"s",".","p","n","g">>)) }

\* inject.js:46
AnchorIntercepted(href) ==
    StartsWith(href, <<"d","a","t","a",":","a","p","p","l","i","c","a","t","i","o","n","/","z","i","p">>) \/ StartsWith(href, <<"d","a","t","a",":","i","m","a","g","e","/">>)

\* the page starts an export
ExportBegins(art) ==
    /\ exportArtifact = NoArtifact
    /\ exportArtifact' = art
    /\ UNCHANGED pageActed

\* the page calls the patched createObjectURL on the export's blob, or the anchor that
\* carries the export's data URL is clicked; an intercepted artifact is forwarded as
\* BLOB_DATA_CAPTURED (inject.js:6-29, 34-55)
PageExports(tab) ==
    /\ exportArtifact.via \in {"objectUrl", "dataAnchor"}
    /\ ~pageActed
    /\ pageActed' = TRUE
    /\ IF exportArtifact.via = "objectUrl" /\ IsIntercepted(exportArtifact.obj)
       THEN PageIntercept("blob:export", exportArtifact.data, tab)
       ELSE IF exportArtifact.via = "dataAnchor" /\ AnchorIntercepted(exportArtifact.item.url)
       THEN PageIntercept("anchor_click", exportArtifact.data, tab)
       ELSE UNCHANGED <<notifyVars, zipVars, storeVars>>
    /\ UNCHANGED exportArtifact

\* the browser creates the download of the export: for an object URL or a data URL, after
\* the page has made the URL and started the download from it
ExportDownloadCreated(d) ==
    /\ exportArtifact # NoArtifact
    /\ exportArtifact.via = "network" \/ pageActed
    /\ \A e \in DlIds : downloads[e].pc = "none"
    /\ DownloadCreated(d, exportArtifact.item)

ChannelInit ==
    /\ exportArtifact = NoArtifact
    /\ pageActed = FALSE

\* ------------------------------------------------------------------------
\* The preview pages' storage-change listener (preview page lines 57-83)
\* ------------------------------------------------------------------------
PreviewPages == 1..MaxPreviewPages

\* an onChanged event of the local area: the keys that changed and the new value of
\* capturedItems, if that key is among them
ChangeEvent(keys, items) == [keys |-> keys, items |-> items]

\* the event handed to every registered preview listener
Announced(queues, listening, ev) ==
    [p \in PreviewPages |-> IF p \in listening THEN Append(queues[p], ev) ELSE queues[p]]

\* updatedItems.find(item => item.id === currentId): the position, 0 if there is none
FindById(items, id) ==
    IF \E k \in 1..Len(items) : items[k].id = id
    THEN CHOOSE k \in 1..Len(items) :
            items[k].id = id /\ \A j \in 1..(k - 1) : items[j].id # id
    ELSE 0

\* variant: the listener writes the collection back together with previewData
ListenerWriteKeys_Both == {"capturedItems", "previewData"}

\* the keys of the listener's chrome.storage.local.set (lines 72-74)
ListenerWriteKeys == {"previewData"}

\* a View button of card k opens preview page p: previewData is written and the page
\* registers its listener (ExportCard.tsx:261-267; preview page lines 41-53, 80)
OpenPreviewPage(p, k) ==
    /\ p \notin pvListening
    /\ \A q \in PreviewPages : q < p => q \in pvListening
    /\ k \in 1..Len(spItems)
    /\ IF p = 1
       THEN OpenPreview(k)
       ELSE /\ previewData' = PreviewOf(spItems[k])
            /\ UNCHANGED <<spItems, spVer, spEvents, uiWrites, pvData, pvUnsaved>>
    /\ pvListening' = pvListening \cup {p}
    /\ pvEvents' = Announced(pvEvents, pvListening, ChangeEvent({"previewData"}, <<>>))
    /\ storageWrites' = Append(storageWrites, [keys |-> {"previewData"}, by |-> "open"])
    /\ UNCHANGED pvReads

\* a write requested by a rename or a code save reaches the storage and the change is
\* announced to the side panel and to the preview listeners
UiSetAnnounced(u) ==
    /\ UiSetApply(u)
    /\ LET keys == IF uiWrites[u].kind \in {"previewRename", "saveCode"}
                   THEN {"capturedItems", "previewData"} ELSE {"capturedItems"}
       IN  /\ pvEvents' = Announced(pvEvents, pvListening,
                                     ChangeEvent(keys, uiWrites[u].updated))
           /\ storageWrites' = Append(storageWrites, [keys |-> keys, by |-> "user"])
    /\ UNCHANGED <<pvListening, pvReads>>

\* handleStorageChange of page p up to its storage read request (lines 58-60)
PreviewStorageChange(p) ==
    /\ pvEvents[p] # <<>>
    /\ pvEvents' = [pvEvents EXCEPT ![p] = Tail(pvEvents[p])]
    /\ pvReads' = IF "capturedItems" \in Head(pvEvents[p]).keys
                  THEN [pvReads EXCEPT ![p] = Append(pvReads[p], Head(pvEvents[p]).items)]
                  ELSE pvReads
    /\ UNCHANGED <<pvListening, storageWrites, uiVars, notifyVars, zipVars, storeVars>>

\* the storage read callback of handleStorageChange of page p: the title of the item
\* previewData points at is copied to the page and to previewData (lines 60-76)
PreviewChangeCallback(p) ==
    /\ pvReads[p] # <<>>
    /\ Len(storageWrites) < MaxStorageWrites
    /\ pvReads' = [pvReads EXCEPT ![p] = Tail(pvReads[p])]
    /\ LET updatedItems == Head(pvReads[p])
           found == IF previewData.present THEN FindById(updatedItems, previewData.id) ELSE 0
       IN  IF found = 0
           THEN UNCHANGED <<pvEvents, storageWrites, uiVars, storeVars>>
           ELSE LET both == "capturedItems" \in ListenerWriteKeys IN
                /\ previewData' = [previewData EXCEPT !.title = updatedItems[found].title]
                /\ pvData' = IF p = 1 /\ pvData.present
                             THEN [pvData EXCEPT !.title = updatedItems[found].title]
                             ELSE pvData
                /\ storageWrites' = Append(storageWrites,
                                           [keys |-> ListenerWriteKeys, by |-> "listener"])
                /\ pvEvents' = Announced(pvEvents, pvListening,
                                         ChangeEvent(ListenerWriteKeys,
                                                     IF both THEN updatedItems ELSE <<>>))
                /\ capturedItems' = IF both THEN updatedItems ELSE capturedItems
                /\ prevStore' = IF both THEN capturedItems ELSE prevStore
                /\ storeVersion' = IF both THEN storeVersion + 1 ELSE storeVersion
                /\ spEvents' = IF both
                               THEN Append(spEvents, [items |-> updatedItems,
                                                      ver |-> storeVersion + 1])
                               ELSE spEvents
                /\ UNCHANGED <<spItems, spVer, pvUnsaved, uiWrites, tasks, nextId, escaped,
                               inbox, lastWriter, exportsHandled>>
    /\ UNCHANGED <<pvListening, notifyVars, zipVars>>

ListenInit ==
    /\ pvListening = {}
    /\ pvEvents = [p \in PreviewPages |-> <<>>]
    /\ pvReads = [p \in PreviewPages |-> <<>>]
    /\ storageWrites = <<>>


ExtInit == SettingsInit /\ DownloadInit /\ PanelInit /\ InjectInit /\ UiInit /\ ExportInit /\ TitleInit /\ TriggerInit /\ EditorInit /\ PortsInit /\ ToastInit /\ ChannelInit /\ ListenInit

\* ------------------------------------------------------------------------
\* Specifications
\* ------------------------------------------------------------------------
\* scheduleNotification driven directly
CallScheduleNotification(count, tabId) ==
    /\ Len(calls) < MaxCalls
    /\ ScheduleNotification(count, tabId, 0)

NextNotify ==
    \/ \E count \in 1..2, tabId \in Tabs \cup {NoTab} :
          CallScheduleNotification(count, tabId) /\ UNCHANGED <<zipVars, storeVars, extVars>>
    \/ \E tm \in timers, activeTab \in Tabs \cup {NoTab} :
          TimerFire(tm, activeTab) /\ UNCHANGED <<zipVars, storeVars, extVars>>
    \/ Tick /\ UNCHANGED <<zipVars, storeVars, extVars>>

InitNotify == NotifyInit /\ ZipInit /\ zipIn = <<>> /\ StoreInit /\ ExtInit

SpecNotify == InitNotify /\ [][NextNotify]_vars

NextZip == Reconstruct /\ UNCHANGED <<notifyVars, storeVars, extVars>>

InitZip == NotifyInit /\ ZipInit /\ StoreInit /\ ExtInit

SpecZip == InitZip /\ [][NextZip]_vars

\* the background coordinator ingesting what the page interceptor, the
\* content script and the download listener hand to it, within one debounce
\* window (the notification timer is covered by SpecNotify)
NextStore ==
    \/ \E data \in BlobPayloads, tab \in {1} :
          /\ PageIntercept(IF data.kind = "image" THEN "anchor_click" ELSE "blob:export", data, tab)
          /\ UNCHANGED extVars
    \/ \E selLong, fresh, node \in BOOLEAN, code \in {"", "<html>code</html>"},
          image \in {NullRef, PngData} :
          HandleExportTrigger(selLong, fresh, code, node, image, 1) /\ UNCHANGED extVars
    \/ \E m \in inbox : BgOnMessage(m) /\ UNCHANGED extVars
    \/ \E data \in {ZipData(A_Scenario), ZipData(A_ImageOnly)} :
          /\ ZipDownloadLoaded(data, "https://stitch.withgoogle.com/export.zip")
          /\ UNCHANGED extVars
    \/ /\ ImageDownloadLoaded(PngData, "https://stitch.withgoogle.com/shot.png",
                              <<"s","h","o","t",".","p","n","g">>)
       /\ UNCHANGED extVars
    \/ \E t \in TaskIds : StorageGetCallback(t) /\ UNCHANGED extVars
    \/ \E t \in TaskIds : StorageSetApply(t) /\ UNCHANGED extVars

InitStore == NotifyInit /\ ZipInit /\ zipIn = <<>> /\ StoreInit /\ ExtInit

SpecStore == InitStore /\ [][NextStore]_vars

\* ========================================================================
\* Properties
\* ========================================================================
RECURSIVE SumCalls(_, _)
\* the sum of the counts of calls lo..hi
SumCalls(lo, hi) == IF lo > hi THEN 0 ELSE calls[hi].count + SumCalls(lo, hi - 1)

\* the calls flush k covers: those after the previous flush
FlushLo(k) == IF k = 1 THEN 1 ELSE flushes[k - 1].nCalls + 1

FlushHi(k) == flushes[k].nCalls

\* every call covered by flush k came less than a second after the one before
IsBurst(k) ==
    \A m \in (FlushLo(k) + 1)..FlushHi(k) : calls[m].at - calls[m - 1].at < DebounceMs

\* no timer callback flushes between two calls less than a second apart
NoFlushInsideBurst ==
    \A m \in 2..Len(calls) :
        calls[m].at - calls[m - 1].at < DebounceMs
          => ~\E k \in 1..Len(flushes) : flushes[k].nCalls = m - 1

BurstHasTab(k) == \E m \in FlushLo(k)..FlushHi(k) : calls[m].tabId # NoTab

\* C1 as stated: a burst of scheduleNotification calls, each less than one
\* second after the previous one, is flushed as a whole, no sooner than one
\* second after its last call, and the flush sends one
\* SHOW_XSTITCH_NOTIFICATION message whose count is the sum of the calls' counts.
C1_OneMessagePerBurst ==
    /\ NoFlushInsideBurst
    /\ \A k \in 1..Len(flushes) :
          IsBurst(k) =>
             /\ flushes[k].at >= calls[FlushHi(k)].at + DebounceMs
             /\ flushes[k].count = SumCalls(FlushLo(k), FlushHi(k))
             /\ flushes[k].to # NoTab

\* C1 amended: as C1, but the message is sent if and only if a call of the
\* burst carried a tab id or an active tab exists when the timer fires.
C1_OneMessagePerBurstWithTarget ==
    /\ NoFlushInsideBurst
    /\ \A k \in 1..Len(flushes) :
          IsBurst(k) =>
             /\ flushes[k].at >= calls[FlushHi(k)].at + DebounceMs
             /\ flushes[k].count = SumCalls(FlushLo(k), FlushHi(k))
             /\ (flushes[k].to # NoTab) <=> (BurstHasTab(k) \/ flushes[k].active # NoTab)

\* a burst of three calls was flushed with a message
C1_Witness ==
    /\ Len(flushes) >= 1
    /\ FlushHi(1) = 3
    /\ IsBurst(1)
    /\ flushes[1].to # NoTab

\* --- archive reconstruction ---------------------------------------------
FolderOf(e) == Join(Front(Split(e.path, "/")), "/")

NameOf(e) == Last(Split(e.path, "/"))

HtmlEntries(g) ==
    {i \in 1..Len(zipIn) : ~zipIn[i].dir /\ FolderOf(zipIn[i]) = g
                           /\ EndsWith(NameOf(zipIn[i]), <<".","h","t","m","l">>)}

ImageEntries(g) ==
    {i \in 1..Len(zipIn) : ~zipIn[i].dir /\ FolderOf(zipIn[i]) = g
                           /\ ~EndsWith(NameOf(zipIn[i]), <<".","h","t","m","l">>)
                           /\ IsImageName(NameOf(zipIn[i]))}

MinOf(S) == CHOOSE i \in S : \A j \in S : i <= j

ImageUrlOf(i) == DataUrl(Last(Split(zipIn[i].path, ".")), zipIn[i].content)

\* C6: the item of a folder group has the content of the group's first .html
\* entry as html and the group's first raster image entry as image.
C6_FirstHtmlFirstImage ==
    zipDone =>
      \A k \in 1..Len(zipOut) :
         LET g == zipKeys[k] IN
         /\ HtmlEntries(g) # {} =>
               \/ zipOut[k].html = HtmlText(zipIn[MinOf(HtmlEntries(g))].content)
               \/ zipIn[MinOf(HtmlEntries(g))].content = ""
         /\ ImageEntries(g) # {} =>
               zipOut[k].image = ImageUrlOf(MinOf(ImageEntries(g)))

\* C7: a group with a raster image and no html entry yields exactly one item,
\* with that image, whose html is the wrapper document embedding that image.
C7_ImageOnlyWrapperEmbedsImage ==
    zipDone =>
      \A i \in 1..Len(zipIn) :
         LET g == FolderOf(zipIn[i]) IN
         (~zipIn[i].dir /\ ImageEntries(g) # {} /\ HtmlEntries(g) = {}) =>
            /\ Cardinality({k \in 1..Len(zipOut) : zipKeys[k] = g}) = 1
            /\ \A k \in 1..Len(zipOut) :
                  zipKeys[k] = g =>
                     /\ zipOut[k].image = ImageUrlOf(MinOf(ImageEntries(g)))
                     /\ zipOut[k].html = HtmlWrapper(zipOut[k].image)

RECURSIVE EncounterOrder(_, _)
\* the groups holding an html or image entry, in the order in which the
\* entries first mention them
EncounterOrder(i, seen) ==
    IF i > Len(zipIn) THEN <<>>
    ELSE LET g == FolderOf(zipIn[i]) IN
         IF zipIn[i].dir \/ g \in seen THEN EncounterOrder(i + 1, seen)
         ELSE IF HtmlEntries(g) # {} \/ ImageEntries(g) # {}
              THEN <<g>> \o EncounterOrder(i + 1, seen \cup {g})
              ELSE EncounterOrder(i + 1, seen \cup {g})

\* C8: the items come in the order in which their groups are first
\* encountered in the archive, whatever the folder names are.
C8_EncounterOrder == zipDone => zipKeys = EncounterOrder(1, {})

\* --- storage ---------------------------------------------------------------
ItemIds(items) == {items[i].id : i \in 1..Len(items)}

\* a and b are finished ingestions, both read before either wrote, a wrote
\* first, and b's write is the last write of the collection
RacedAndBWroteLast(a, b) ==
    /\ a # b
    /\ tasks[a].pc = "done" /\ tasks[a].writeVer > 0
    /\ tasks[b].pc = "done" /\ tasks[b].writeVer > 0
    /\ tasks[a].writeVer < tasks[b].writeVer
    /\ tasks[b].readVer < tasks[a].writeVer
    /\ storeVersion = tasks[b].writeVer

\* C2: when two ingestions both read capturedItems before either writes it
\* back, the collection after both writes holds the later writer's new items
\* and none of the items the first writer added.
C2_LastWriteWins ==
    \A a, b \in TaskIds :
        RacedAndBWroteLast(a, b) =>
           /\ ItemIds(tasks[a].newItems) \cap ItemIds(capturedItems) = {}
           /\ ItemIds(tasks[b].newItems) \subseteq ItemIds(capturedItems)

C2_Witness ==
    \E a, b \in TaskIds :
        /\ RacedAndBWroteLast(a, b)
        /\ tasks[a].newItems # <<>>
        /\ tasks[a].kind = "zip" /\ tasks[b].kind = "img"

\* t read and wrote with no other write in between, and its write is the last
WroteUndisturbed(t) ==
    /\ tasks[t].pc = "done" /\ tasks[t].writeVer > 0
    /\ storeVersion = tasks[t].writeVer
    /\ tasks[t].readVer = tasks[t].writeVer - 1

\* C3: an ingestion that reads and writes with no other storage write in
\* between leaves its new items, in order, followed by the previous
\* collection, unchanged and in its previous order.
C3_NewItemsPrepended ==
    \A t \in TaskIds :
        WroteUndisturbed(t) => capturedItems = tasks[t].newItems \o prevStore

C3_Witness ==
    \E t \in TaskIds :
        /\ WroteUndisturbed(t)
        /\ Len(tasks[t].newItems) >= 2
        /\ prevStore # <<>>

\* C4: every stored item has a non-empty html or a non-empty image.
C4_HtmlOrImage ==
    \A i \in 1..Len(capturedItems) :
        HtmlNonEmpty(capturedItems[i].html) \/ ImageNonEmpty(capturedItems[i].image)

Matches(item, p) ==
    /\ item.html = p.html
    /\ item.image = p.image
    /\ item.sourceUrl = p.sourceUrl
    /\ item.title = p.title

\* C5: once the background listener has handled a STITCH_EXPORT_FULL message
\* and no storage request of the background is pending, capturedItems holds
\* an item with the payload's html, image, sourceUrl and title.
C5_ExportIsStored ==
    (\A t \in TaskIds : tasks[t].pc \notin {"get", "set"}) =>
       \A p \in exportsHandled : \E i \in 1..Len(capturedItems) : Matches(capturedItems[i], p)

\* the scenario archive was ingested into the empty collection and nothing
\* else has written since
ScenarioIngested(t) ==
    /\ tasks[t].data = ZipData(A_Scenario)
    /\ WroteUndisturbed(t)
    /\ tasks[t].writeVer = 1

ScenarioItems(titleA, titleB) ==
    /\ Len(capturedItems) = 2
    /\ capturedItems[1].title = titleA
    /\ capturedItems[1].html = HtmlText("h1")
    /\ capturedItems[1].image = DataUrl(<<"p","n","g">>, "p1")
    /\ capturedItems[2].title = titleB
    /\ capturedItems[2].html = HtmlText("h2")
    /\ capturedItems[2].image = NullRef

\* C9 as stated: the scenario archive, ingested into the empty collection,
\* stores two items titled "Screen A" and "Screen B", in that order, with the
\* html and image of their folders.
C9_ScenarioSpacedTitles ==
    \A t \in TaskIds :
        ScenarioIngested(t) =>
           ScenarioItems(<<"S","c","r","e","e","n"," ","A">>, <<"S","c","r","e","e","n"," ","B">>)

\* C9 amended: the same two items, titled "ScreenA" and "ScreenB" (the folder
\* names, which hold no underscore to turn into a space).
C9_ScenarioFolderTitles ==
    \A t \in TaskIds :
        ScenarioIngested(t) =>
           ScenarioItems(<<"S","c","r","e","e","n","A">>, <<"S","c","r","e","e","n","B">>)

C9_Witness == \E t \in TaskIds : ScenarioIngested(t)

\* C10: the step in which processZipData fails to decode its data changes
\* nothing but the call's own record: no exception leaves the function,
\* capturedItems and the id source are as before, and no notification is
\* scheduled.
C10_DecodeErrorIsNoOp ==
    [][ (\E t \in TaskIds : ~tasks[t].failed /\ tasks'[t].failed) =>
           /\ escaped' = escaped
           /\ capturedItems' = capturedItems
           /\ nextId' = nextId
           /\ storeVersion' = storeVersion
           /\ notifyVars' = notifyVars
           /\ \A t \in TaskIds :
                 tasks'[t].failed => tasks'[t].pc = "done" /\ tasks'[t].newItems = <<>> ]_vars

\* an image data URL failed to decode and a later ingestion stored its items
C10_Witness ==
    \E t, u \in TaskIds :
        /\ tasks[t].failed /\ tasks[t].data.kind = "image"
        /\ t < u /\ WroteUndisturbed(u)
        /\ capturedItems = tasks[u].newItems

\* --- C11 ---------------------------------------------------------------
\* the folder groups of an archive that hold a .html entry or a raster image
\* entry
MatchingGroups(entries) ==
    { FolderOf(entries[i]) :
        i \in {j \in 1..Len(entries) :
                 /\ ~entries[j].dir
                 /\ \/ EndsWith(NameOf(entries[j]), <<".","h","t","m","l">>)
                    \/ IsImageName(NameOf(entries[j]))} }

\* the archive ingestions that decoded their data
DecodedZip(t) == tasks[t].kind = "zip" /\ ~tasks[t].failed

\* C11: processZipData makes one item per folder group that holds a .html or
\* raster image entry and none for any other group; for an archive without
\* such a group it makes no item, requests no storage read or write and
\* schedules no notification.
C11_UnmatchedGroupsYieldNothing ==
    \A t \in TaskIds :
        DecodedZip(t) =>
           /\ Len(tasks[t].newItems) = Cardinality(MatchingGroups(tasks[t].data.entries))
           /\ MatchingGroups(tasks[t].data.entries) = {} =>
                 /\ tasks[t].pc = "done"
                 /\ tasks[t].newItems = <<>>
                 /\ tasks[t].writeVer = 0
                 /\ lastWriter # t
                 /\ \A k \in 1..Len(calls) : calls[k].by # t

\* an archive holding only a .txt entry was processed, and so was one whose
\* .txt group sits next to a group with html
C11_Witness ==
    \E t, u \in TaskIds :
        /\ DecodedZip(t) /\ tasks[t].data = ZipData(A_NoMatch) /\ tasks[t].pc = "done"
        /\ DecodedZip(u) /\ tasks[u].data = ZipData(A_Mixed) /\ tasks[u].writeVer > 0
        /\ Len(capturedItems) = 1

\* --- download interception ----------------------------------------------
\* the download listener with the interception toggle and the ingestion
\* calls it makes (the storage steps of an ingestion are covered by SpecStore)
NextDownload ==
    \/ \E d \in DlIds, downloadItem \in DownloadPool :
          /\ DownloadCreated(d, downloadItem)
          /\ UNCHANGED <<notifyVars, zipVars, storeVars, settingsVars, panelVars, injectVars, uiVars, exportVars, titleVars, triggerVars, editorVars, portVars, toastVars, channelVars, listenVars>>
    \/ \E d \in DlIds :
          DownloadSettingsRead(d) /\ UNCHANGED <<notifyVars, zipVars, storeVars, settingsVars, panelVars, injectVars, uiVars, exportVars, titleVars, triggerVars, editorVars, portVars, toastVars, channelVars, listenVars>>
    \/ \E d \in DlIds :
          DownloadFetchFailed(d) /\ UNCHANGED <<notifyVars, zipVars, storeVars, settingsVars, panelVars, injectVars, uiVars, exportVars, titleVars, triggerVars, editorVars, portVars, toastVars, channelVars, listenVars>>
    \/ \E d \in DlIds, data \in {ZipData(A_ImageOnly), Garbage} :
          DownloadZipLoaded(d, data) /\ UNCHANGED <<inbox, exportsHandled, zipVars, settingsVars, panelVars, injectVars, uiVars, exportVars, titleVars, triggerVars, editorVars, portVars, toastVars, channelVars, listenVars>>
    \/ \E d \in DlIds :
          /\ DownloadImageLoaded(d, PngData)
          /\ UNCHANGED <<inbox, exportsHandled, zipVars, settingsVars, panelVars, injectVars, uiVars, exportVars, titleVars, triggerVars, editorVars, portVars, toastVars, channelVars, listenVars>>
    \/ \E w \in SwIds :
          ToggleCancelDownloads(w) /\ UNCHANGED <<notifyVars, zipVars, storeVars, dlVars, panelVars, injectVars, uiVars, exportVars, titleVars, triggerVars, editorVars, portVars, toastVars, channelVars, listenVars>>
    \/ \E w \in SwIds :
          SettingsGetCallback(w) /\ UNCHANGED <<notifyVars, zipVars, storeVars, dlVars, panelVars, injectVars, uiVars, exportVars, titleVars, triggerVars, editorVars, portVars, toastVars, channelVars, listenVars>>
    \/ \E w \in SwIds :
          SettingsSetApply(w) /\ UNCHANGED <<notifyVars, zipVars, storeVars, dlVars, panelVars, injectVars, uiVars, exportVars, titleVars, triggerVars, editorVars, portVars, toastVars, channelVars, listenVars>>

InitDownload == NotifyInit /\ ZipInit /\ zipIn = <<>> /\ StoreInit /\ ExtInit

SpecDownload == InitDownload /\ [][NextDownload]_vars

\* the handler of download d has read the settings and acted on them
SettingsWereRead(d) == downloads[d].pc \notin {"none", "settings"}

\* (a) the referrer or the URL contains one of the two domain strings
FromStitch(item) ==
    \E k \in 1..2 : Includes(item.referrer, STITCH_DOMAINS[k]) \/ Includes(item.url, STITCH_DOMAINS[k])

ZipKind(item) == item.mime = <<"a","p","p","l","i","c","a","t","i","o","n","/","z","i","p">> \/ EndsWith(item.filename, <<".","z","i","p">>)

\* a raster image by its MIME type or by its file name extension
RasterKind(item) ==
    \/ item.mime \in { <<"i","m","a","g","e","/","p","n","g">>, <<"i","m","a","g","e","/","j","p","e","g">>, <<"i","m","a","g","e","/","w","e","b","p">>, <<"i","m","a","g","e","/","g","i","f">>, <<"i","m","a","g","e","/","b","m","p">> }
    \/ \E ext \in { <<".","p","n","g">>, <<".","j","p","g">>, <<".","j","p","e","g">>, <<".","w","e","b","p">> } :
          EndsWith(ToLowerStr(item.filename), ext)

\* an image of any kind by its MIME type, or a raster image by its extension
ImageKind(item) ==
    \/ (Len(item.mime) >= 6 /\ SubSeq(item.mime, 1, 6) = <<"i","m","a","g","e","/">>)
    \/ \E ext \in { <<".","p","n","g">>, <<".","j","p","g">>, <<".","j","p","e","g">>, <<".","w","e","b","p">> } :
          EndsWith(ToLowerStr(item.filename), ext)

\* C12 as stated: chrome.downloads.cancel is called for a download if and
\* only if it comes from a Stitch domain, is a ZIP or raster-image download,
\* and cancelDownloads was true when the handler read the settings; a
\* download from elsewhere is neither cancelled nor ingested.
C12_CancelIffStitchZipOrRaster ==
    \A d \in DlIds :
        SettingsWereRead(d) =>
           LET item == downloads[d].item IN
           /\ downloads[d].cancelled <=>
                 (FromStitch(item) /\ (ZipKind(item) \/ RasterKind(item)) /\ downloads[d].readCancel)
           /\ ~FromStitch(item) => (~downloads[d].cancelled /\ downloads[d].task = 0)

\* C12 amended: as C12, with "is a ZIP download, or has a MIME type beginning
\* with image/ or a png/jpg/jpeg/webp file name" as condition (b).
C12_CancelIffStitchZipOrImage ==
    \A d \in DlIds :
        SettingsWereRead(d) =>
           LET item == downloads[d].item IN
           /\ downloads[d].cancelled <=>
                 (FromStitch(item) /\ (ZipKind(item) \/ ImageKind(item)) /\ downloads[d].readCancel)
           /\ ~FromStitch(item) => (~downloads[d].cancelled /\ downloads[d].task = 0)

\* one download was cancelled and ingested while interception was on; after
\* the toggle was switched off again a second one of the same kind was not
\* cancelled but still ingested
C12_Witness ==
    /\ downloads[1].pc = "done" /\ downloads[1].cancelled /\ downloads[1].task # 0
    /\ downloads[2].pc = "done" /\ ~downloads[2].cancelled /\ downloads[2].task # 0
    /\ downloads[1].item = downloads[2].item
    /\ ~CancelDownloadsOf(settings)

\* --- side panel -----------------------------------------------------------
\* the side panel listeners of the background with the options page toggle
NextPanel ==
    \/ \E tab \in Tabs :
          TogglePanel(tab) /\ UNCHANGED <<notifyVars, zipVars, storeVars, settingsVars, dlVars, injectVars, uiVars, exportVars, titleVars, triggerVars, editorVars, portVars, toastVars, channelVars, listenVars>>
    \/ \E tm \in reenableTimers :
          /\ ReenableTimerFire(tm)
          /\ UNCHANGED <<notifyVars, zipVars, storeVars, settingsVars, dlVars, injectVars, uiVars, exportVars, titleVars, triggerVars, editorVars, portVars, toastVars, channelVars, listenVars>>
    \/ PortInit /\ UNCHANGED <<notifyVars, zipVars, storeVars, settingsVars, dlVars, injectVars, uiVars, exportVars, titleVars, triggerVars, editorVars, portVars, toastVars, channelVars, listenVars>>
    \/ PortDisconnect /\ UNCHANGED <<notifyVars, zipVars, storeVars, settingsVars, dlVars, injectVars, uiVars, exportVars, titleVars, triggerVars, editorVars, portVars, toastVars, channelVars, listenVars>>
    \/ \E tab \in Tabs, url \in UrlPool :
          /\ TabUpdated(tab, url)
          /\ UNCHANGED <<notifyVars, zipVars, storeVars, settingsVars, dlVars, injectVars, uiVars, exportVars, titleVars, triggerVars, editorVars, portVars, toastVars, channelVars, listenVars>>
    \/ \E tab \in Tabs :
          TabActivated(tab) /\ UNCHANGED <<notifyVars, zipVars, storeVars, settingsVars, dlVars, injectVars, uiVars, exportVars, titleVars, triggerVars, editorVars, portVars, toastVars, channelVars, listenVars>>
    \/ UpdateSidePanelVisibility
          /\ UNCHANGED <<notifyVars, zipVars, storeVars, settingsVars, dlVars, injectVars, uiVars, exportVars, titleVars, triggerVars, editorVars, portVars, toastVars, channelVars, listenVars>>
    \/ PanelTick /\ UNCHANGED <<notifyVars, zipVars, storeVars, settingsVars, dlVars, injectVars, uiVars, exportVars, titleVars, triggerVars, editorVars, portVars, toastVars, channelVars, listenVars>>
    \/ \E w \in SwIds :
          OptionsHandleChange(w) /\ UNCHANGED <<notifyVars, zipVars, storeVars, dlVars, panelVars, injectVars, uiVars, exportVars, titleVars, triggerVars, editorVars, portVars, toastVars, channelVars, listenVars>>
    \/ \E w \in SwIds :
          SettingsGetCallback(w) /\ UNCHANGED <<notifyVars, zipVars, storeVars, dlVars, panelVars, injectVars, uiVars, exportVars, titleVars, triggerVars, editorVars, portVars, toastVars, channelVars, listenVars>>
    \/ \E w \in SwIds :
          SettingsSetApply(w) /\ UNCHANGED <<notifyVars, zipVars, storeVars, dlVars, panelVars, injectVars, uiVars, exportVars, titleVars, triggerVars, editorVars, portVars, toastVars, channelVars, listenVars>>

InitPanel == NotifyInit /\ ZipInit /\ zipIn = <<>> /\ StoreInit /\ ExtInit

SpecPanel == InitPanel /\ [][NextPanel]_vars

\* requests i and j, in this order, are for the same tab and less than a
\* second apart
CloseTogether(i, j) ==
    /\ i < j
    /\ toggleLog[i].tab = toggleLog[j].tab
    /\ toggleLog[j].at - toggleLog[i].at < 1000

\* C13 as stated: of two TOGGLE_SIDE_PANEL requests for the same tab less
\* than a second apart, with the panel believed closed at the first, the
\* first opens the panel and the second runs the disable/re-enable cycle and
\* does not open.
C13_FirstOpensSecondCycles ==
    \A i, j \in 1..Len(toggleLog) :
        (CloseTogether(i, j) /\ ~toggleLog[i].believedOpen) =>
           /\ toggleLog[i].did = "open"
           /\ toggleLog[j].did = "cycle"

\* no request for the same tab was made in the second before request i
FreshToggle(i) ==
    \A h \in 1..(i - 1) :
        toggleLog[h].tab = toggleLog[i].tab => toggleLog[i].at - toggleLog[h].at >= 1000

\* C13 amended: as C13, for a first request that is not itself less than a
\* second after an earlier request for that tab.
C13_FreshFirstOpensSecondCycles ==
    \A i, j \in 1..Len(toggleLog) :
        (CloseTogether(i, j) /\ ~toggleLog[i].believedOpen /\ FreshToggle(i)) =>
           /\ toggleLog[i].did = "open"
           /\ toggleLog[j].did = "cycle"

\* a double click on the toggle while the panel's INIT message was still
\* under way: the second request found the panel believed closed and forced
\* the cycle, which has completed
C13_Witness ==
    \E i, j \in 1..Len(toggleLog) :
        /\ CloseTogether(i, j) /\ ~toggleLog[i].believedOpen /\ FreshToggle(i)
        /\ toggleLog[j].isStuck
        /\ reenableTimers = {}
        /\ panelEnabled[toggleLog[j].tab]

\* no handler and no timer is pending
Quiescent ==
    /\ visQueue = <<>>
    /\ reenableTimers = {}
    /\ \A w \in SwIds : settingsWrites[w].pc \in {"idle", "done"}

\* C14: whenever no handler or timer is pending, the side panel is enabled
\* for a tab only if the tab's URL contains a Stitch domain string or
\* experimentalMode is true in the stored settings.
C14_EnabledOnlyOnStitchOrExperimental ==
    Quiescent =>
       \A tab \in Tabs :
          panelEnabled[tab] =>
             \/ \E k \in 1..2 : Includes(tabUrl[tab], STITCH_DOMAINS[k])
             \/ ExperimentalOf(settings)

\* --- page interceptor ------------------------------------------------------
NextInject ==
    \/ \E obj \in PageObjects :
          PatchedCreateObjectURL(obj)
             /\ UNCHANGED <<notifyVars, zipVars, storeVars, settingsVars, dlVars, panelVars, uiVars, exportVars, titleVars, triggerVars, editorVars, portVars, toastVars, channelVars, listenVars>>
    \/ \E rd \in readers :
          ReaderLoadEnd(rd)
             /\ UNCHANGED <<notifyVars, zipVars, storeVars, settingsVars, dlVars, panelVars, uiVars, exportVars, titleVars, triggerVars, editorVars, portVars, toastVars, channelVars, listenVars>>

InitInject == NotifyInit /\ ZipInit /\ zipIn = <<>> /\ StoreInit /\ ExtInit

SpecInject == InitInject /\ [][NextInject]_vars

\* C15: each call of the patched URL.createObjectURL calls the original
\* exactly once, with the call's argument, and gives its caller what the
\* original gave (the returned URL or the exception), which is what the same
\* call gives on the page without the patch.
C15_WrapperIsTransparent ==
    /\ Len(originalCalls) = Len(pageCalls)
    /\ Len(plainOutcomes) = Len(pageCalls)
    /\ \A k \in 1..Len(pageCalls) :
          /\ originalCalls[k] = pageCalls[k].obj
          /\ pageCalls[k].outcome = plainOutcomes[k]

\* the page made an intercepted call, a call the original rejected and a
\* call that was not intercepted, and the intercepted blob was dispatched
C15_Witness ==
    /\ Len(pageCalls) = 3
    /\ IsIntercepted(pageCalls[1].obj) /\ ~pageCalls[1].outcome.threw
    /\ pageCalls[2].outcome.threw
    /\ ~IsIntercepted(pageCalls[3].obj) /\ pageCalls[3].outcome = Returned(2)
    /\ Len(dispatched) = 1

\* --- clipboard UI ---------------------------------------------------------
\* the side panel and the preview page working on a loaded clipboard while
\* an export is ingested
NextUi ==
    \/ \E k \in 1..MaxShown :
          /\ OpenPreview(k)
          /\ UNCHANGED <<notifyVars, zipVars, storeVars, settingsVars, dlVars, panelVars, injectVars, exportVars, titleVars, triggerVars, editorVars, portVars, toastVars, channelVars, listenVars>>
    \/ \E value \in EditorTexts :
          /\ HandleEditorChange(value)
          /\ UNCHANGED <<notifyVars, zipVars, storeVars, settingsVars, dlVars, panelVars, injectVars, exportVars, titleVars, triggerVars, editorVars, portVars, toastVars, channelVars, listenVars>>
    \/ \E u \in UiIds :
          /\ HandleSaveCode(u)
          /\ UNCHANGED <<notifyVars, zipVars, storeVars, settingsVars, dlVars, panelVars, injectVars, exportVars, titleVars, triggerVars, editorVars, portVars, toastVars, channelVars, listenVars>>
    \/ \E u \in UiIds :
          /\ PreviewSaveTitle(u, <<"N","e","w">>)
          /\ UNCHANGED <<notifyVars, zipVars, storeVars, settingsVars, dlVars, panelVars, injectVars, exportVars, titleVars, triggerVars, editorVars, portVars, toastVars, channelVars, listenVars>>
    \/ \E u \in UiIds, k \in 1..MaxShown :
          /\ CardSaveTitle(u, k, <<" ","a","<","b",">"," ">>)
          /\ UNCHANGED <<notifyVars, zipVars, storeVars, settingsVars, dlVars, panelVars, injectVars, exportVars, titleVars, triggerVars, editorVars, portVars, toastVars, channelVars, listenVars>>
    \/ \E u \in UiIds, k \in 1..MaxShown :
          /\ HandleDelete(u, k)
          /\ UNCHANGED <<notifyVars, zipVars, storeVars, settingsVars, dlVars, panelVars, injectVars, exportVars, titleVars, triggerVars, editorVars, portVars, toastVars, channelVars, listenVars>>
    \/ \E u \in UiIds :
          /\ PreviewGetCallback(u)
          /\ UNCHANGED <<notifyVars, zipVars, storeVars, settingsVars, dlVars, panelVars, injectVars, exportVars, titleVars, triggerVars, editorVars, portVars, toastVars, channelVars, listenVars>>
    \/ \E u \in UiIds :
          /\ UiSetApply(u)
          /\ UNCHANGED <<notifyVars, zipVars, settingsVars, dlVars, panelVars, injectVars, exportVars, titleVars, triggerVars, editorVars, portVars, toastVars, channelVars, listenVars>>
    \/ /\ SidePanelStorageChange
       /\ UNCHANGED <<notifyVars, zipVars, storeVars, settingsVars, dlVars, panelVars, injectVars, exportVars, titleVars, triggerVars, editorVars, portVars, toastVars, channelVars, listenVars>>
    \/ /\ \A t \in TaskIds : tasks[t].pc = "idle"
       /\ ZipDownloadLoaded(ZipData(A_ImageOnly), "https://stitch.withgoogle.com/export.zip")
       /\ UNCHANGED <<settingsVars, dlVars, panelVars, injectVars, uiVars, exportVars, titleVars, triggerVars, editorVars, portVars, toastVars, channelVars, listenVars>>
    \/ \E t \in TaskIds :
          /\ StorageGetCallback(t)
          /\ UNCHANGED <<settingsVars, dlVars, panelVars, injectVars, uiVars, exportVars, titleVars, triggerVars, editorVars, portVars, toastVars, channelVars, listenVars>>
    \/ \E t \in TaskIds :
          /\ IngestSetApply(t)
          /\ UNCHANGED <<settingsVars, dlVars, panelVars, injectVars, exportVars, titleVars, triggerVars, editorVars, portVars, toastVars, channelVars, listenVars>>

InitUi ==
    /\ NotifyInit /\ ZipInit /\ zipIn = <<>>
    /\ SettingsInit /\ DownloadInit /\ PanelInit /\ InjectInit /\ ExportInit /\ TitleInit /\ TriggerInit /\ EditorInit /\ PortsInit /\ ToastInit /\ ChannelInit /\ ListenInit
    /\ ClipboardLoaded

SpecUi == InitUi /\ [][NextUi]_vars

ItemWithId(items, id) == items[CHOOSE k \in 1..Len(items) : items[k].id = id]

\* this step changes the html or the image stored for item id
ContentChanged(id) ==
    \/ ItemWithId(capturedItems', id).html # ItemWithId(capturedItems, id).html
    \/ ItemWithId(capturedItems', id).image # ItemWithId(capturedItems, id).image

\* this step is the write of a Save Changes action on item id, and it stores
\* the saved text as the item's html and leaves its image alone
IsSaveOf(id) ==
    \E u \in UiIds :
        /\ uiWrites[u].pc = "set" /\ uiWrites'[u].pc = "done"
        /\ uiWrites[u].kind = "saveCode" /\ uiWrites[u].id = id
        /\ ItemWithId(capturedItems', id).html = uiWrites[u].html
        /\ ItemWithId(capturedItems', id).image = ItemWithId(capturedItems, id).image

\* this step writes a collection computed from a snapshot that another write
\* has overtaken
IsStaleWrite ==
    \/ \E u \in UiIds :
          uiWrites[u].pc = "set" /\ uiWrites'[u].pc = "done" /\ uiWrites[u].readVer # storeVersion
    \/ \E t \in TaskIds :
          tasks[t].pc = "set" /\ tasks'[t].pc = "done" /\ tasks[t].readVer # storeVersion

\* C16 as stated: the html and image of an item that stays in capturedItems
\* change only in the write of a Save Changes action on that item.
C16_ContentChangesOnlyBySave ==
    [][ \A id \in ItemIds(capturedItems) \cap ItemIds(capturedItems') :
           ContentChanged(id) => IsSaveOf(id) ]_vars

\* C16 amended: the html and image of an item that stays in capturedItems
\* change only in the write of a Save Changes action on that item, or in a
\* write whose snapshot of the collection was overtaken by another write.
C16_ContentChangesOnlyBySaveOrStaleWrite ==
    [][ \A id \in ItemIds(capturedItems) \cap ItemIds(capturedItems') :
           ContentChanged(id) => (IsSaveOf(id) \/ IsStaleWrite) ]_vars

\* an edit of the first item was saved and the second item was renamed on
\* its card, each on a current snapshot, and both are in the stored collection
C16_Witness ==
    \E u, v \in UiIds :
        /\ uiWrites[u].kind = "saveCode" /\ uiWrites[u].pc = "done"
        /\ uiWrites[u].readVer = uiWrites[u].writeVer - 1
        /\ uiWrites[v].kind = "cardRename" /\ uiWrites[v].pc = "done" /\ uiWrites[v].wrote
        /\ uiWrites[v].readVer = uiWrites[v].writeVer - 1
        /\ uiWrites[u].id # uiWrites[v].id
        /\ Len(capturedItems) = 2
        /\ ItemWithId(capturedItems, uiWrites[u].id).html = HtmlText("<p>edit</p>")
        /\ ItemWithId(capturedItems, uiWrites[v].id).title = uiWrites[v].title

\* nothing that reads or writes the storage is under way
NoStorageRequestPending ==
    /\ \A u \in UiIds : uiWrites[u].pc \in {"idle", "done"}
    /\ \A t \in TaskIds : tasks[t].pc \in {"idle", "done"}
    /\ spEvents = <<>>

\* C17: once nothing is pending, the html stored for the item shown in the
\* preview page is the text in the editor.
C17_EditorTextIsStored ==
    (NoStorageRequestPending /\ pvData.present /\ pvData.id \in ItemIds(capturedItems)) =>
       ItemWithId(capturedItems, pvData.id).html = pvData.html

\* the two rename surfaces working on a loaded clipboard
NextRename ==
    \/ \E k \in 1..MaxShown :
          /\ OpenPreview(k)
          /\ UNCHANGED <<notifyVars, zipVars, storeVars, settingsVars, dlVars, panelVars, injectVars, exportVars, titleVars, triggerVars, editorVars, portVars, toastVars, channelVars, listenVars>>
    \/ \E u \in UiIds, typed \in TypedTitles :
          /\ PreviewSaveTitle(u, typed)
          /\ UNCHANGED <<notifyVars, zipVars, storeVars, settingsVars, dlVars, panelVars, injectVars, exportVars, titleVars, triggerVars, editorVars, portVars, toastVars, channelVars, listenVars>>
    \/ \E u \in UiIds, k \in 1..MaxShown, typed \in TypedTitles :
          /\ CardSaveTitle(u, k, typed)
          /\ UNCHANGED <<notifyVars, zipVars, storeVars, settingsVars, dlVars, panelVars, injectVars, exportVars, titleVars, triggerVars, editorVars, portVars, toastVars, channelVars, listenVars>>
    \/ \E u \in UiIds :
          /\ PreviewGetCallback(u)
          /\ UNCHANGED <<notifyVars, zipVars, storeVars, settingsVars, dlVars, panelVars, injectVars, exportVars, titleVars, triggerVars, editorVars, portVars, toastVars, channelVars, listenVars>>
    \/ \E u \in UiIds :
          /\ UiSetApply(u)
          /\ UNCHANGED <<notifyVars, zipVars, settingsVars, dlVars, panelVars, injectVars, exportVars, titleVars, triggerVars, editorVars, portVars, toastVars, channelVars, listenVars>>
    \/ /\ SidePanelStorageChange
       /\ UNCHANGED <<notifyVars, zipVars, storeVars, settingsVars, dlVars, panelVars, injectVars, exportVars, titleVars, triggerVars, editorVars, portVars, toastVars, channelVars, listenVars>>

InitRename ==
    /\ NotifyInit /\ ZipInit /\ zipIn = <<>>
    /\ SettingsInit /\ DownloadInit /\ PanelInit /\ InjectInit /\ ExportInit /\ TitleInit /\ TriggerInit /\ EditorInit /\ PortsInit /\ ToastInit /\ ChannelInit /\ ListenInit
    /\ ClipboardLoaded

SpecRename == InitRename /\ [][NextRename]_vars

NotInvalidChar(c) == c \notin {"<", ">", ":", "\"", "/", "\\", "|", "?", "*"}

\* typed without the nine characters and without the blanks at its ends, or
\* "Untitled Design" when that is empty
ExpectedTitle(typed) ==
    LET kept == SelectSeq(typed, NotInvalidChar)
        inner == {k \in 1..Len(kept) : kept[k] # " "}
    IN  IF inner = {} THEN <<"U","n","t","i","t","l","e","d"," ","D","e","s","i","g","n">>
        ELSE SubSeq(kept, CHOOSE a \in inner : \A b \in inner : a <= b,
                          CHOOSE a \in inner : \A b \in inner : a >= b)

\* nothing of typed remains once the nine characters and the blanks are gone
NothingRemains(typed) ==
    \A k \in 1..Len(typed) : ~NotInvalidChar(typed[k]) \/ typed[k] = " "

\* C19 as stated: on the card and on the preview page, saving a title asks
\* for the title to be stored as the typed text without the nine characters
\* and trimmed, or as "Untitled Design" when nothing remains; that is the
\* item's stored title once the write is the latest write.
C19_SavedTitleIsSanitized ==
    \A u \in UiIds :
        (uiWrites[u].kind \in {"cardRename", "previewRename"}) =>
           /\ uiWrites[u].wrote
           /\ uiWrites[u].title = ExpectedTitle(uiWrites[u].typed)
           /\ (uiWrites[u].pc = "done" /\ uiWrites[u].writeVer = storeVersion
                 /\ uiWrites[u].id \in ItemIds(capturedItems)) =>
                 ItemWithId(capturedItems, uiWrites[u].id).title = ExpectedTitle(uiWrites[u].typed)

\* C19 amended: the same, except that on the card a typed text of which
\* nothing remains asks for no write at all, so the item keeps its title.
C19_SavedTitleIsSanitizedOrKept ==
    \A u \in UiIds :
        (uiWrites[u].kind \in {"cardRename", "previewRename"}) =>
           IF uiWrites[u].kind = "cardRename" /\ NothingRemains(uiWrites[u].typed)
           THEN ~uiWrites[u].wrote /\ uiWrites[u].pc = "done" /\ uiWrites[u].writeVer = 0
           ELSE /\ uiWrites[u].wrote
                /\ uiWrites[u].title = ExpectedTitle(uiWrites[u].typed)
                /\ (uiWrites[u].pc = "done" /\ uiWrites[u].writeVer = storeVersion
                      /\ uiWrites[u].id \in ItemIds(capturedItems)) =>
                      ItemWithId(capturedItems, uiWrites[u].id).title =
                          ExpectedTitle(uiWrites[u].typed)

\* "???" was saved on the card of one item, which kept its title, and on the
\* preview page of the other, whose stored title is "Untitled Design"
C19_Witness ==
    \E u, v \in UiIds :
        /\ uiWrites[u].kind = "cardRename" /\ uiWrites[u].typed = <<"?","?","?">>
        /\ uiWrites[v].kind = "previewRename" /\ uiWrites[v].typed = <<"?","?","?">>
        /\ uiWrites[v].pc = "done" /\ uiWrites[v].writeVer = storeVersion
        /\ uiWrites[u].id # uiWrites[v].id
        /\ ItemWithId(capturedItems, uiWrites[u].id).title \notin {<<>>, UntitledDesign}
        /\ ItemWithId(capturedItems, uiWrites[v].id).title = UntitledDesign

\* the three export actions on a clipboard shown in the side panel
NextExport ==
    \/ \E k \in 1..MaxExportItems :
          /\ OpenPreview(k)
          /\ UNCHANGED <<notifyVars, zipVars, storeVars, settingsVars, dlVars, panelVars, injectVars, exportVars, titleVars, triggerVars, editorVars, portVars, toastVars, channelVars, listenVars>>
    \/ \E k \in 1..MaxExportItems :
          /\ CardDownload(k)
          /\ UNCHANGED <<notifyVars, zipVars, storeVars, settingsVars, dlVars, panelVars, injectVars, uiVars, titleVars, triggerVars, editorVars, portVars, toastVars, channelVars, listenVars>>
    \/ /\ PreviewDownload
       /\ UNCHANGED <<notifyVars, zipVars, storeVars, settingsVars, dlVars, panelVars, injectVars, uiVars, titleVars, triggerVars, editorVars, portVars, toastVars, channelVars, listenVars>>
    \/ /\ HandleDownloadAll
       /\ UNCHANGED <<notifyVars, zipVars, storeVars, settingsVars, dlVars, panelVars, injectVars, uiVars, titleVars, triggerVars, editorVars, portVars, toastVars, channelVars, listenVars>>

InitExport ==
    /\ NotifyInit /\ ZipInit /\ zipIn = <<>>
    /\ SettingsInit /\ DownloadInit /\ PanelInit /\ InjectInit /\ ExportInit /\ TitleInit /\ TriggerInit /\ EditorInit /\ PortsInit /\ ToastInit /\ ChannelInit /\ ListenInit
    /\ spItems \in ExportClipboards
    /\ capturedItems = spItems
    /\ tasks = [t \in TaskIds |-> IdleTask]
    /\ nextId = Len(spItems) + 1
    /\ escaped = {}
    /\ inbox = {}
    /\ storeVersion = 1
    /\ prevStore = <<>>
    /\ lastWriter = 0
    /\ exportsHandled = {}
    /\ spVer = 1
    /\ spEvents = <<>>
    /\ previewData = NoPreview
    /\ pvData = NoPreview
    /\ pvUnsaved = FALSE
    /\ uiWrites = [u \in UiIds |-> IdleUiWrite]

SpecExport == InitExport /\ [][NextExport]_vars

\* the bundle has item's own folder, named after its title, holding
\* <title>.html with the item's html and, when the item has an image,
\* <title>.png with the image
HasOwnFolder(files, item) ==
    /\ \E e \in files : e.dir /\ e.path = <<item.title>>
    /\ \E e \in files :
          /\ ~e.dir /\ e.path = <<item.title, item.title \o <<".","h","t","m","l">>>>
          /\ e.content = HtmlContent(item.html)
    /\ ImageNonEmpty(item.image) =>
          \E e \in files :
             /\ ~e.dir /\ e.path = <<item.title, item.title \o <<".","p","n","g">>>>
             /\ e.content = Base64Of(item.image)

\* C18: every bundle of an export action has, for each exported item, the
\* item's own folder with its files, and as many folders as exported items.
C18_BundleHasFolderPerItem ==
    bundle.present =>
       /\ \A k \in 1..Len(bundle.exported) : HasOwnFolder(bundle.files, bundle.exported[k])
       /\ Cardinality({e \in bundle.files : e.dir}) = Len(bundle.exported)

NextTitle ==
    DeriveStep /\ UNCHANGED <<notifyVars, zipVars, storeVars, settingsVars, dlVars, panelVars, injectVars, uiVars, exportVars, triggerVars, editorVars, portVars, toastVars, channelVars, listenVars>>

InitTitle ==
    /\ NotifyInit /\ ZipInit /\ zipIn = <<>> /\ StoreInit
    /\ SettingsInit /\ DownloadInit /\ PanelInit /\ InjectInit /\ UiInit /\ ExportInit /\ TriggerInit /\ EditorInit /\ PortsInit /\ ToastInit /\ ChannelInit /\ ListenInit
    /\ groupKey \in TitleKeys
    /\ derived = NoTitle

SpecTitle == InitTitle /\ [][NextTitle]_vars

CanvasScreen == <<"_","c","a","n","v","a","s","_","s","c","r","e","e","n">>

\* the last path segment, or the parent segment when the last one is
\* "_canvas_screen" and there is a parent
NamingSegment(key) ==
    LET segs == Split(key, "/")
    IN  IF Len(segs) > 1 /\ segs[Len(segs)] = CanvasScreen THEN segs[Len(segs) - 1]
        ELSE segs[Len(segs)]

IsLetterOrDigit(c) == IsUpper(c) \/ IsLower(c) \/ IsDigit(c)

\* underscores replaced by spaces, then the first character of each word (a
\* run of letters and digits) upper-cased
TitleCased(seg) ==
    LET spaced == [i \in 1..Len(seg) |-> IF seg[i] = "_" THEN " " ELSE seg[i]]
    IN  [i \in 1..Len(spaced) |->
           IF IsLetterOrDigit(spaced[i]) /\ (i = 1 \/ ~IsLetterOrDigit(spaced[i - 1]))
           THEN ToUpperChar(spaced[i]) ELSE spaced[i]]

\* a leading "Stitch " removed
WithoutStitchPrefix(t) ==
    IF Len(t) >= 7 /\ SubSeq(t, 1, 7) = <<"S","t","i","t","c","h"," ">> THEN SubSeq(t, 8, Len(t)) ELSE t

\* a leading "stitch" in any letter case followed by blanks removed, with
\* all the blanks that follow it
WithoutStitchAnyCase(t) ==
    IF Len(t) >= 7 /\ ToLowerStr(SubSeq(t, 1, 6)) = <<"s","t","i","t","c","h">> /\ t[7] = " "
    THEN LET rest == {i \in 7..Len(t) : t[i] # " "}
         IN  IF rest = {} THEN <<>>
             ELSE SubSeq(t, CHOOSE i \in rest : \A j \in rest : i <= j, Len(t))
    ELSE t

\* C20 as stated: the derived title is the naming segment, title-cased, with
\* a leading "Stitch " removed.
C20_TitleDerivation ==
    derived.done => derived.title = WithoutStitchPrefix(TitleCased(NamingSegment(groupKey)))

\* C20 amended: the derived title is the naming segment, title-cased, with a
\* leading "stitch" in any letter case removed together with all the blanks
\* after it; "Home_Page/_canvas_screen" gives "Home Page", "My_Button" gives
\* "My Button" and "Stitch_Landing" gives "Landing".
C20_TitleDerivationAnyCase ==
    derived.done =>
       /\ derived.title = WithoutStitchAnyCase(TitleCased(NamingSegment(groupKey)))
       /\ groupKey = <<"H","o","m","e","_","P","a","g","e","/","_","c","a","n","v","a","s","_","s","c","r","e","e","n">> => derived.title = <<"H","o","m","e"," ","P","a","g","e">>
       /\ groupKey = <<"M","y","_","B","u","t","t","o","n">> => derived.title = <<"M","y"," ","B","u","t","t","o","n">>
       /\ groupKey = <<"S","t","i","t","c","h","_","L","a","n","d","i","n","g">> => derived.title = <<"L","a","n","d","i","n","g">>

\* the title of "STITCH_Landing/_canvas_screen" was derived: the parent
\* segment names it and its upper-case prefix is gone
C20_Witness ==
    /\ groupKey = <<"S","T","I","T","C","H","_","L","a","n","d","i","n","g","/","_","c","a","n","v","a","s","_","s","c","r","e","e","n">>
    /\ derived.done
    /\ derived.title = <<"L","a","n","d","i","n","g">>

\* the content script of one frame serving export triggers
NextTrigger ==
    \/ \E over \in BOOLEAN :
          MouseMove(over) /\ UNCHANGED <<notifyVars, zipVars, storeVars, settingsVars, dlVars, panelVars, injectVars, uiVars, exportVars, titleVars, editorVars, portVars, toastVars, channelVars, listenVars>>
    \/ \E where \in {"inNode", "outside"} :
          ContextMenu(where) /\ UNCHANGED <<notifyVars, zipVars, storeVars, settingsVars, dlVars, panelVars, injectVars, uiVars, exportVars, titleVars, editorVars, portVars, toastVars, channelVars, listenVars>>
    \/ CsTick /\ UNCHANGED <<notifyVars, zipVars, storeVars, settingsVars, dlVars, panelVars, injectVars, uiVars, exportVars, titleVars, editorVars, portVars, toastVars, channelVars, listenVars>>
    \/ \E i \in TrigIds, selLen \in {0, MinSelectionLength, MinSelectionLength + 1} :
          TriggerStart(i, selLen) /\ UNCHANGED <<notifyVars, zipVars, storeVars, settingsVars, dlVars, panelVars, injectVars, uiVars, exportVars, titleVars, editorVars, portVars, toastVars, channelVars, listenVars>>
    \/ \E i \in TrigIds, res \in TriggerCodes :
          EditorResolved(i, res) /\ UNCHANGED <<notifyVars, zipVars, storeVars, settingsVars, dlVars, panelVars, injectVars, uiVars, exportVars, titleVars, editorVars, portVars, toastVars, channelVars, listenVars>>
    \/ \E i \in TrigIds, image \in TriggerImages, threw \in BOOLEAN :
          ImageResolved(i, image, threw) /\ UNCHANGED <<notifyVars, zipVars, storeVars, settingsVars, dlVars, panelVars, injectVars, uiVars, exportVars, titleVars, editorVars, portVars, toastVars, channelVars, listenVars>>

InitTrigger == NotifyInit /\ ZipInit /\ zipIn = <<>> /\ StoreInit /\ ExtInit

SpecTrigger == InitTrigger /\ [][NextTrigger]_vars

\* the step of the fixed order that decides invocation t, from what the
\* invocation found: 1 selection, 2 stale frame, 3 editor code, 4 visual
\* capture, 5 nothing found
DecidingStep(t) ==
    IF t.selLen > 50 THEN 1
    ELSE IF t.at - t.lastMove > 2000 THEN 2
    ELSE IF t.code.found THEN 3
    ELSE IF t.target THEN 4
    ELSE 5

SentTitles(t) == [k \in 1..Len(t.sent) |-> t.sent[k].payload.title]

\* C21: an invocation sends at most one STITCH_EXPORT_FULL; a finished one
\* did what the first applicable step of the fixed order says and ran no
\* step after it: "Selected Code" for a selection of more than 50 characters;
\* else nothing at all in a frame whose last mouse event is more than 2000 ms
\* old; else "Source Code" when the editor gave code; else a visual capture
\* (one message, or none when it failed); else the "No Design or Code found"
\* toast and no message.
C21_FirstApplicableStepDecides ==
    \A i \in TrigIds :
        LET t == triggers[i] IN
        /\ Len(t.sent) <= 1
        /\ \A k \in 1..Len(t.sent) : t.sent[k].type = "STITCH_EXPORT_FULL"
        /\ t.pc = "done" =>
             /\ DecidingStep(t) = 1 =>
                   SentTitles(t) = <<SelectedCode>> /\ t.steps = <<"selection">>
             /\ DecidingStep(t) = 2 =>
                   t.sent = <<>> /\ t.toasts = <<>> /\ t.steps = <<"selection", "frameCheck">>
             /\ DecidingStep(t) = 3 =>
                   SentTitles(t) = <<SourceCode>> /\ t.steps = <<"selection", "frameCheck", "editor">>
             /\ DecidingStep(t) = 4 =>
                   /\ SentTitles(t) \in {<<VisualCapture>>, <<>>}
                   /\ t.steps = <<"selection", "frameCheck", "editor", "visual">>
             /\ DecidingStep(t) = 5 =>
                   /\ t.sent = <<>>
                   /\ t.toasts[Len(t.toasts)] = "No Design or Code found."
                   /\ t.steps = <<"selection", "frameCheck", "editor", "nothingFound">>

\* the mouse moved in the frame, more than 2000 ms passed, and an invocation
\* with a selection of exactly 50 characters ended with nothing sent or shown
C21_Witness ==
    \E i \in TrigIds :
        /\ triggers[i].pc = "done" /\ DecidingStep(triggers[i]) = 2
        /\ triggers[i].lastMove > 0 /\ triggers[i].selLen = 50
        /\ triggers[i].sent = <<>> /\ triggers[i].toasts = <<>>

\* one call of tryGetCodeFromEditor on each page of EditorEnvs
NextEditor ==
    GetCodeCall /\ UNCHANGED <<notifyVars, zipVars, storeVars, settingsVars, dlVars, panelVars, injectVars, uiVars, exportVars, titleVars, triggerVars, portVars, toastVars, channelVars, listenVars>>

InitEditor ==
    /\ NotifyInit /\ ZipInit /\ zipIn = <<>> /\ StoreInit
    /\ SettingsInit /\ DownloadInit /\ PanelInit /\ InjectInit /\ UiInit /\ ExportInit /\ TitleInit /\ TriggerInit /\ PortsInit /\ ToastInit /\ ChannelInit /\ ListenInit
    /\ editorEnv \in EditorEnvs
    /\ codeResult = [done |-> FALSE, code |-> NoCode]

SpecEditor == InitEditor /\ [][NextEditor]_vars

\* the call returned text read from the rendered lines, and lines of the
\* document are not among them
ReturnedPartOfDocument ==
    /\ codeResult.done /\ codeResult.code.found /\ codeResult.code.by = "viewLines"
    /\ Len(editorEnv.viewLines) < Len(editorEnv.doc)

NextPorts ==
    \/ \E p \in PortIds :
          PortConnect(p) /\ UNCHANGED <<notifyVars, zipVars, storeVars, settingsVars, dlVars, injectVars, uiVars, exportVars, titleVars, triggerVars, editorVars, toastVars, channelVars, listenVars>>
    \/ \E p \in PortIds, w \in Windows :
          PortOnInit(p, w) /\ UNCHANGED <<notifyVars, zipVars, storeVars, settingsVars, dlVars, injectVars, uiVars, exportVars, titleVars, triggerVars, editorVars, toastVars, channelVars, listenVars>>
    \/ \E p \in PortIds :
          PortOnDisconnect(p) /\ UNCHANGED <<notifyVars, zipVars, storeVars, settingsVars, dlVars, injectVars, uiVars, exportVars, titleVars, triggerVars, editorVars, toastVars, channelVars, listenVars>>

InitPorts == NotifyInit /\ ZipInit /\ zipIn = <<>> /\ StoreInit /\ ExtInit

SpecPorts == InitPorts /\ [][NextPorts]_vars

\* the windows for which a connected port has sent INIT
WindowsWithPort ==
    {w \in Windows : \E p \in PortIds :
        ports[p].state = "connected" /\ ports[p].inited /\ ports[p].winId = w}

\* C23: a window id is in openSidePanels exactly when a currently connected
\* side-panel port has sent INIT with it.
C23_OpenIffConnectedPort == openSidePanels = WindowsWithPort

\* a frame receiving SHOW_XSTITCH_NOTIFICATION messages
NextToast ==
    \/ \E count \in 1..2 :
          ShowXStitchNotification(count) /\ UNCHANGED <<notifyVars, zipVars, storeVars, settingsVars, dlVars, panelVars, injectVars, uiVars, exportVars, titleVars, editorVars, portVars, channelVars, listenVars>>
    \/ \E element \in 1..MaxShows :
          NotificationClose(element) /\ UNCHANGED <<notifyVars, zipVars, storeVars, settingsVars, dlVars, panelVars, injectVars, uiVars, exportVars, titleVars, editorVars, portVars, channelVars, listenVars>>
    \/ NotificationAutoRemove /\ UNCHANGED <<notifyVars, zipVars, storeVars, settingsVars, dlVars, panelVars, injectVars, uiVars, exportVars, titleVars, editorVars, portVars, channelVars, listenVars>>
    \/ ToastTick /\ UNCHANGED <<notifyVars, zipVars, storeVars, settingsVars, dlVars, panelVars, injectVars, uiVars, exportVars, titleVars, editorVars, portVars, channelVars, listenVars>>

InitToast ==
    /\ NotifyInit /\ ZipInit /\ zipIn = <<>> /\ StoreInit
    /\ SettingsInit /\ DownloadInit /\ PanelInit /\ InjectInit /\ UiInit /\ ExportInit /\ TitleInit /\ TriggerInit /\ EditorInit /\ PortsInit /\ ChannelInit /\ ListenInit
    /\ pageIsTop \in BOOLEAN
    /\ lastNotificationTime = 0
    /\ csNotificationTimeout = NoTimeout
    /\ pageNotifications = {}
    /\ shows = <<>>

SpecToast == InitToast /\ [][NextToast]_vars

\* the messages before k that were displayed
DisplayedBefore(k) == {j \in 1..(k - 1) : shows[j].displayed}

\* message k came less than 2000 ms after the last displayed one
InsideWindow(k) ==
    /\ DisplayedBefore(k) # {}
    /\ LET last == CHOOSE j \in DisplayedBefore(k) : \A m \in DisplayedBefore(k) : m <= j
       IN  shows[k].at - shows[last].at < 2000

\* C24: in the top frame a message is displayed exactly when it does not come
\* less than 2000 ms after the last displayed one (a message that is not
\* displayed does not count as the last displayed one); the document holds at
\* most one notification element, and only that of the last displayed
\* message.
C24_DisplayedOncePerWindow ==
    pageIsTop =>
       /\ \A k \in 1..Len(shows) : shows[k].displayed <=> ~InsideWindow(k)
       /\ Cardinality(pageNotifications) <= 1
       /\ \A element \in pageNotifications :
             /\ shows[element].displayed
             /\ \A j \in (element + 1)..Len(shows) : ~shows[j].displayed

\* three messages 1000 ms apart in the top frame: the second is skipped and
\* the third, 2000 ms after the first, is displayed in place of the first
C24_Witness ==
    /\ pageIsTop /\ Len(shows) = 3
    /\ shows[1].displayed /\ ~shows[2].displayed /\ shows[3].displayed
    /\ shows[2].at = shows[1].at + 1000 /\ shows[3].at = shows[1].at + 2000
    /\ pageNotifications = {3}

\* ------------------------------------------------------------------------
\* Ingestion together with the notification timer (background.ts:377-391, 69-111)
\* ------------------------------------------------------------------------
\* chrome.storage.local.set rejects the write (QUOTA_BYTES exceeded); the callback of
\* background.ts:383 does not look at chrome.runtime.lastError
StorageSetFail(t) ==
    /\ tasks[t].pc = "set"
    /\ tasks' = [tasks EXCEPT ![t].pc = "done", ![t].failed = TRUE]
    /\ UNCHANGED <<capturedItems, nextId, escaped, inbox, storeVersion, prevStore, lastWriter,
                   exportsHandled, notifyVars, zipVars>>

NextConfirm ==
    \/ \E data \in {ZipData(A_Scenario), ZipData(A_ImageOnly)}, tab \in {1} :
          PageIntercept("blob:export", data, tab) /\ UNCHANGED extVars
    \/ \E m \in inbox : BgOnMessage(m) /\ UNCHANGED extVars
    \/ \E t \in TaskIds : StorageGetCallback(t) /\ UNCHANGED extVars
    \/ \E t \in TaskIds : StorageSetApply(t) /\ UNCHANGED extVars
    \/ \E t \in TaskIds : StorageSetFail(t) /\ UNCHANGED extVars
    \/ \E tm \in timers, activeTab \in {1} :
          TimerFire(tm, activeTab) /\ UNCHANGED <<zipVars, storeVars, extVars>>
    \/ Tick /\ UNCHANGED <<zipVars, storeVars, extVars>>

InitConfirm == NotifyInit /\ ZipInit /\ zipIn = <<>> /\ StoreInit /\ ExtInit

SpecConfirm == InitConfirm /\ [][NextConfirm]_vars

\* the calls of scheduleNotification whose counts the next flush delivers
PendingCalls ==
    { k \in 1..Len(calls) :
        k > (IF Len(flushes) = 0 THEN 0 ELSE flushes[Len(flushes)].nCalls) }

\* the write of capturedItems requested by ingestion t has reached the storage
WriteCompleted(t) == tasks[t].pc = "done" /\ ~tasks[t].failed /\ tasks[t].writeVer > 0

\* C25: whenever a SHOW_XSTITCH_NOTIFICATION is sent, the capturedItems write of every
\* ingestion whose items it counts has completed (it has happened and has not failed)
C25_NotifiedAfterWrite ==
    [][Len(flushes') > Len(flushes) =>
          \A k \in PendingCalls : WriteCompleted(calls[k].by)]_vars

\* ------------------------------------------------------------------------
\* The download channel under the two values of cancelDownloads
\* ------------------------------------------------------------------------
\* the URL is an object-URL or data-URL reference
IsBlobOrDataUrl(url) ==
    StartsWith(url, <<"b","l","o","b",":">>) \/ StartsWith(url, <<"d","a","t","a",":">>)

\* items as stored, without the identifier drawn at ingestion time
WithoutIds(its) ==
    [k \in 1..Len(its) |-> [html |-> its[k].html, image |-> its[k].image,
                            sourceUrl |-> its[k].sourceUrl, title |-> its[k].title]]

\* download d went through its fetch and handed the payload to an ingestion
Ingested(d) == downloads[d].pc = "done" /\ downloads[d].task # 0

\* the two handlers saw the same download and the same fetched payload, one with
\* cancelDownloads true and one with cancelDownloads false
SameButCancel(d, e) ==
    /\ Ingested(d) /\ Ingested(e)
    /\ downloads[d].item = downloads[e].item
    /\ tasks[downloads[d].task].data = tasks[downloads[e].task].data
    /\ downloads[d].readCancel /\ ~downloads[e].readCancel

\* C26: a Stitch ZIP or image download whose URL starts with http goes on to the fetch
\* whatever value of cancelDownloads the handler read, a blob: or data: URL is never
\* fetched, and two handlers that differ only in the value read ingest the same items
C26_CancelIndependentIngestion ==
    [][/\ \A d \in DlIds :
            (downloads[d].pc = "settings" /\ downloads'[d].pc # "settings") =>
               LET it == downloads[d].item IN
               /\ (IsStitchOrigin(it) /\ IsHttpUrl(it.url) /\ IsZipDownload(it))
                     => downloads'[d].pc = "fetchZip"
               /\ (IsStitchOrigin(it) /\ IsHttpUrl(it.url) /\ ~IsZipDownload(it)
                     /\ IsImageDownload(it)) => downloads'[d].pc = "fetchImg"
               /\ IsBlobOrDataUrl(it.url) => downloads'[d].pc = "done"
       /\ \A d, e \in DlIds :
            SameButCancel(d, e)' =>
               ( /\ tasks'[downloads'[d].task].kind = tasks'[downloads'[e].task].kind
                 /\ WithoutIds(tasks'[downloads'[d].task].newItems)
                      = WithoutIds(tasks'[downloads'[e].task].newItems) )]_vars

\* the same http ZIP download was handled once with cancelDownloads on and once with it
\* off, and both handlers ingested a reconstructed item
C26_Witness ==
    \E d, e \in DlIds :
       /\ SameButCancel(d, e)
       /\ IsZipDownload(downloads[d].item) /\ IsHttpUrl(downloads[d].item.url)
       /\ downloads[d].cancelled /\ ~downloads[e].cancelled
       /\ Len(tasks[downloads[d].task].newItems) > 0

\* ------------------------------------------------------------------------
\* Batch, timer and counts of the notification debounce (background.ts:66-111)
\* ------------------------------------------------------------------------
RECURSIVE SumFlushes(_, _)
\* sum of the counts of the first n flushes; withTarget selects those that were handed
\* to a tab (TRUE) or those for which no tab was found (FALSE)
SumFlushes(n, withTarget) ==
    IF n = 0 THEN 0
    ELSE (IF (flushes[n].to # NoTab) = withTarget THEN flushes[n].count ELSE 0)
            + SumFlushes(n - 1, withTarget)

PendingCount == IF notificationBatch.active THEN notificationBatch.count ELSE 0

\* C27: the batch is non-null exactly when a debounce timer is pending, and the counts of
\* the messages handed to a tab plus the count of the pending batch equal the counts passed
\* to scheduleNotification, less those of flushes for which no target tab existed
C27_BatchIffTimerAndCountsConserved ==
    /\ notificationBatch.active <=> timers # {}
    /\ notificationBatch.active => \E tm \in timers : tm.id = notificationTimeout
    /\ Cardinality(timers) <= 1
    /\ SumFlushes(Len(flushes), TRUE) + PendingCount
          = SumCalls(1, Len(calls)) - SumFlushes(Len(flushes), FALSE)
    /\ (\A k \in 1..Len(flushes) : flushes[k].to # NoTab)
          => SumFlushes(Len(flushes), TRUE) + PendingCount = SumCalls(1, Len(calls))

\* two calls were batched and handed to a tab in one message, and a later call is pending
C27_Witness ==
    /\ Len(flushes) = 1 /\ flushes[1].to # NoTab /\ flushes[1].nCalls = 2
    /\ flushes[1].count = calls[1].count + calls[2].count
    /\ Len(calls) = 3 /\ notificationBatch.active /\ timers # {}

\* ------------------------------------------------------------------------
\* A toggle while the panel is closed and believed closed (background.ts:140-175)
\* ------------------------------------------------------------------------
\* the handler of TOGGLE_SIDE_PANEL runs in this step
ToggleHandled == Len(toggleLog') = Len(toggleLog) + 1

\* C28: a TOGGLE_SIDE_PANEL request handled while the window's panel is closed and the
\* window is not in openSidePanels opens the panel, however recent the tab's last toggle
C28_ClosedPanelIsOpened ==
    [][(ToggleHandled /\ ~panelOpen /\ openSidePanels = {}) => panelOpen']_vars

NextChannels ==
    \/ \E art \in Artifacts :
          ExportBegins(art)
             /\ UNCHANGED <<notifyVars, zipVars, storeVars, settingsVars, dlVars, panelVars, injectVars, uiVars, exportVars, titleVars, triggerVars, editorVars, portVars, toastVars, listenVars>>
    \/ \E tab \in {1} :
          PageExports(tab)
             /\ UNCHANGED <<settingsVars, dlVars, panelVars, injectVars, uiVars, exportVars, titleVars, triggerVars, editorVars, portVars, toastVars, listenVars>>
    \/ \E m \in inbox :
          BgOnMessage(m) /\ UNCHANGED extVars
    \/ \E t \in TaskIds : StorageGetCallback(t) /\ UNCHANGED extVars
    \/ \E t \in TaskIds : StorageSetApply(t) /\ UNCHANGED extVars
    \/ \E d \in DlIds :
          ExportDownloadCreated(d)
             /\ UNCHANGED <<notifyVars, zipVars, storeVars, settingsVars, panelVars, injectVars, uiVars, exportVars, titleVars, triggerVars, editorVars, portVars, toastVars, channelVars, listenVars>>
    \/ \E d \in DlIds :
          DownloadSettingsRead(d)
             /\ UNCHANGED <<notifyVars, zipVars, storeVars, settingsVars, panelVars, injectVars, uiVars, exportVars, titleVars, triggerVars, editorVars, portVars, toastVars, channelVars, listenVars>>
    \/ \E d \in DlIds :
          DownloadFetchFailed(d)
             /\ UNCHANGED <<notifyVars, zipVars, storeVars, settingsVars, panelVars, injectVars, uiVars, exportVars, titleVars, triggerVars, editorVars, portVars, toastVars, channelVars, listenVars>>
    \/ \E d \in DlIds :
          DownloadZipLoaded(d, exportArtifact.data)
             /\ UNCHANGED <<inbox, exportsHandled, zipVars, settingsVars, panelVars, injectVars, uiVars, exportVars, titleVars, triggerVars, editorVars, portVars, toastVars, channelVars, listenVars>>
    \/ \E d \in DlIds :
          DownloadImageLoaded(d, exportArtifact.fetched)
             /\ UNCHANGED <<inbox, exportsHandled, zipVars, settingsVars, panelVars, injectVars, uiVars, exportVars, titleVars, triggerVars, editorVars, portVars, toastVars, channelVars, listenVars>>
    \/ \E w \in SwIds :
          ToggleCancelDownloads(w)
             /\ UNCHANGED <<notifyVars, zipVars, storeVars, dlVars, panelVars, injectVars, uiVars, exportVars, titleVars, triggerVars, editorVars, portVars, toastVars, channelVars, listenVars>>
    \/ \E w \in SwIds :
          SettingsGetCallback(w)
             /\ UNCHANGED <<notifyVars, zipVars, storeVars, dlVars, panelVars, injectVars, uiVars, exportVars, titleVars, triggerVars, editorVars, portVars, toastVars, channelVars, listenVars>>
    \/ \E w \in SwIds :
          SettingsSetApply(w)
             /\ UNCHANGED <<notifyVars, zipVars, storeVars, dlVars, panelVars, injectVars, uiVars, exportVars, titleVars, triggerVars, editorVars, portVars, toastVars, channelVars, listenVars>>

InitChannels == NotifyInit /\ ZipInit /\ zipIn = <<>> /\ StoreInit /\ ExtInit

SpecChannels == InitChannels /\ [][NextChannels]_vars

\* the ingestions started by the download listener, and those started from a
\* BLOB_DATA_CAPTURED message
DownloadTasks == { t \in TaskIds : \E d \in DlIds : downloads[d].task = t }

InterceptorTasks == { t \in TaskIds : tasks[t].pc # "idle" } \ DownloadTasks

\* the page interceptor has forwarded the export
Captured == InterceptorTasks # {} \/ \E m \in inbox : m.type = "BLOB_DATA_CAPTURED"

SameDesign(x, y) == x.html = y.html /\ x.image = y.image /\ x.title = y.title

\* C29: an export captured by the page interceptor reaches the download listener as a
\* blob: or data: URL and is not fetched there; the export is ingested by at most one of
\* the two channels, and none of its items is stored twice in capturedItems
C29_OneChannelPerArtifact ==
    /\ Captured =>
          \A d \in DlIds :
             downloads[d].pc # "none" =>
                /\ IsBlobOrDataUrl(downloads[d].item.url)
                /\ downloads[d].pc \notin {"fetchZip", "fetchImg"}
                /\ downloads[d].task = 0
    /\ InterceptorTasks = {} \/ DownloadTasks = {}
    /\ Cardinality(InterceptorTasks \cup DownloadTasks) <= 1
    /\ \A i, j \in 1..Len(capturedItems) :
          i < j => ~SameDesign(capturedItems[i], capturedItems[j])

\* an intercepted object-URL ZIP has been stored by the interceptor channel, and the
\* download listener has handled the blob: download of the same export without a fetch
C29_Witness ==
    /\ exportArtifact.via = "objectUrl" /\ pageActed
    /\ InterceptorTasks # {} /\ \A t \in InterceptorTasks : tasks[t].pc = "done"
    /\ Len(capturedItems) = 2
    /\ \E d \in DlIds : downloads[d].pc = "done" /\ downloads[d].cancelled
                           /\ downloads[d].item = exportArtifact.item

\* ------------------------------------------------------------------------
\* A rename or a code save with the side panel and preview pages open
\* ------------------------------------------------------------------------
\* callbacks and events the browser delivers without a user
QuiesceDelivery ==
    \/ \E u \in UiIds :
          /\ PreviewGetCallback(u)
          /\ UNCHANGED <<notifyVars, zipVars, storeVars, settingsVars, dlVars, panelVars, injectVars, exportVars, titleVars, triggerVars, editorVars, portVars, toastVars, channelVars, listenVars>>
    \/ \E u \in UiIds :
          /\ UiSetAnnounced(u)
          /\ UNCHANGED <<notifyVars, zipVars, settingsVars, dlVars, panelVars, injectVars, exportVars, titleVars, triggerVars, editorVars, portVars, toastVars, channelVars>>
    \/ /\ SidePanelStorageChange
       /\ UNCHANGED <<notifyVars, zipVars, storeVars, settingsVars, dlVars, panelVars, injectVars, exportVars, titleVars, triggerVars, editorVars, portVars, toastVars, channelVars, listenVars>>
    \/ \E p \in PreviewPages :
          /\ PreviewStorageChange(p)
          /\ UNCHANGED <<settingsVars, dlVars, panelVars, injectVars, exportVars, titleVars, triggerVars, editorVars, portVars, toastVars, channelVars>>
    \/ \E p \in PreviewPages :
          /\ PreviewChangeCallback(p)
          /\ UNCHANGED <<settingsVars, dlVars, panelVars, injectVars, exportVars, titleVars, triggerVars, editorVars, portVars, toastVars, channelVars>>

\* the user makes one rename or one code save (handler u = 1 is the only one that starts);
\* preview pages are opened and the editor is changed at any time
NextQuiesce ==
    \/ \E p \in PreviewPages, k \in 1..MaxShown :
          /\ OpenPreviewPage(p, k)
          /\ UNCHANGED <<notifyVars, zipVars, storeVars, settingsVars, dlVars, panelVars, injectVars, exportVars, titleVars, triggerVars, editorVars, portVars, toastVars, channelVars>>
    \/ \E value \in EditorTexts :
          /\ HandleEditorChange(value)
          /\ UNCHANGED <<notifyVars, zipVars, storeVars, settingsVars, dlVars, panelVars, injectVars, exportVars, titleVars, triggerVars, editorVars, portVars, toastVars, channelVars, listenVars>>
    \/ \E u \in {1} :
          /\ HandleSaveCode(u)
          /\ UNCHANGED <<notifyVars, zipVars, storeVars, settingsVars, dlVars, panelVars, injectVars, exportVars, titleVars, triggerVars, editorVars, portVars, toastVars, channelVars, listenVars>>
    \/ \E u \in {1} :
          /\ PreviewSaveTitle(u, <<"N","e","w">>)
          /\ UNCHANGED <<notifyVars, zipVars, storeVars, settingsVars, dlVars, panelVars, injectVars, exportVars, titleVars, triggerVars, editorVars, portVars, toastVars, channelVars, listenVars>>
    \/ \E u \in {1}, k \in 1..MaxShown :
          /\ CardSaveTitle(u, k, <<" ","a","<","b",">"," ">>)
          /\ UNCHANGED <<notifyVars, zipVars, storeVars, settingsVars, dlVars, panelVars, injectVars, exportVars, titleVars, triggerVars, editorVars, portVars, toastVars, channelVars, listenVars>>
    \/ QuiesceDelivery

InitQuiesce ==
    /\ NotifyInit /\ ZipInit /\ zipIn = <<>>
    /\ SettingsInit /\ DownloadInit /\ PanelInit /\ InjectInit /\ ExportInit /\ TitleInit /\ TriggerInit /\ EditorInit /\ PortsInit /\ ToastInit /\ ChannelInit /\ ListenInit
    /\ ClipboardLoaded

\* the browser's event loop runs every pending callback
SpecQuiesce == InitQuiesce /\ [][NextQuiesce]_vars /\ WF_vars(QuiesceDelivery)

\* the writes applied so far that were made by who and touch key
WritesBy(who, key) ==
    Cardinality({ k \in 1..Len(storageWrites) :
                    storageWrites[k].by = who /\ key \in storageWrites[k].keys })

\* the renames and code saves whose write has been applied
SavesApplied == Cardinality({ u \in UiIds : uiWrites[u].writeVer > 0 })

\* nothing is pending: no handler awaits a storage callback and no event awaits delivery
AtRest ==
    /\ \A u \in UiIds : uiWrites[u].pc \in {"idle", "done"}
    /\ spEvents = <<>>
    /\ \A p \in PreviewPages : pvEvents[p] = <<>> /\ pvReads[p] = <<>>

WritesBounded ==
    /\ WritesBy("listener", "capturedItems") = 0
    /\ WritesBy("user", "capturedItems") = SavesApplied
    /\ WritesBy("listener", "previewData") <= SavesApplied * Cardinality(pvListening)

\* C30: a rename or a code save is followed by one write of capturedItems and at most one
\* write of previewData per open preview page, none of which writes capturedItems again,
\* and the system then comes to rest
C30_BoundedWritesThenQuiescent ==
    /\ []WritesBounded
    /\ ~AtRest ~> AtRest

\* a preview-page rename has been written, both open preview pages have reacted with a
\* write of previewData, and nothing is pending
C30_Witness ==
    /\ AtRest
    /\ pvListening = PreviewPages
    /\ \E u \in UiIds : uiWrites[u].kind = "previewRename" /\ uiWrites[u].writeVer > 0
    /\ WritesBy("listener", "previewData") = 2
    /\ previewData.title = <<"N","e","w">>

====
